---- MODULE Spec2Model ----
(***************************************************************************)
(* The UCP wireup lane selector (src/ucp/wireup/select.c).                *)
(*                                                                         *)
(* One call of ucp_wireup_select_lanes is modelled as a state machine:     *)
(* the inputs of the call (local resources, remote address list, features, *)
(* endpoint parameters, configuration) are chosen in Init, every selection *)
(* pass is one action, and the finalizer ucp_wireup_construct_lanes is the *)
(* last action.  Bitmaps are sets of bit positions, flag words are sets of *)
(* flag names.  Scores are the source's formulas in integer arithmetic:    *)
(* times in microseconds, bandwidth in bytes per microsecond, so that      *)
(* 1e-3 / (t * 1e-6) = 1000 / t; a division by a zero bandwidth is the     *)
(* IEEE infinity, which makes the score 0.                                 *)
(***************************************************************************)
EXTENDS Integers, Sequences, FiniteSets, TLC

(***************************************************************************)
(* Bounds of the model.                                                    *)
(***************************************************************************)
\* largest number of local resources (= remote entries) of the typed family
MaxRsc == 3
\* largest number of rails of the wide family
MaxRails == 6
\* largest value of context->config.ext.max_rndv_lanes
MaxRndvLanes == 3
\* largest value of context->config.ext.max_eager_lanes
MaxEagerLanes == 3

(***************************************************************************)
(* Program constants that live outside select.c.                           *)
(***************************************************************************)
UCP_MAX_LANES == 6
UCP_MAX_OP_MDS == 4
\* the sentinel for "no lane"
UCP_NULL_LANE == UCP_MAX_LANES
\* number of memory types (UCS_MEMORY_TYPE_LAST) the RMA-BW pass iterates over
UCS_MEMORY_TYPE_LAST == 2
\* the relative epsilon of the score comparison is 1 / EPSILON_INV
EPSILON_INV == 10

\* bitmap argument -1: every bit set
ALL_BITS == 0..63

Max(a, b) == IF a >= b THEN a ELSE b
Min(a, b) == IF a <= b THEN a ELSE b
Abs(a) == IF a >= 0 THEN a ELSE -a

(***************************************************************************)
(* Flag universes.                                                         *)
(***************************************************************************)
UCP_ADDRESS_IFACE_FLAGS ==
    {"CONNECT_TO_IFACE", "CB_SYNC", "CB_ASYNC", "AM_BCOPY", "PUT_SHORT",
     "PUT_BCOPY", "PUT_ZCOPY", "GET_SHORT", "GET_BCOPY", "GET_ZCOPY",
     "TAG_EAGER_BCOPY", "TAG_RNDV_ZCOPY", "EVENT_RECV", "EVENT_RECV_SIG",
     "PENDING"}

UCP_WORKER_UCT_RECV_EVENT_CAP_FLAGS == {"EVENT_RECV", "EVENT_RECV_SIG"}
UCP_WORKER_UCT_UNSIG_EVENT_CAP_FLAGS == {"EVENT_SEND_COMP", "EVENT_RECV"}

UsageBits == {"AM", "AM_BW", "RMA", "RMA_BW", "AMO", "TAG"}

NoAtomic == [op32 |-> {}, fop32 |-> {}, op64 |-> {}, fop64 |-> {}]
AtomicOps == {"ADD", "AND", "OR", "XOR"}
AtomicFops == {"ADD", "AND", "OR", "XOR", "SWAP", "CSWAP"}
AllAtomic == [op32 |-> AtomicOps, fop32 |-> AtomicFops,
              op64 |-> AtomicOps, fop64 |-> AtomicFops]

ucs_test_all_flags(flags, required) == required \subseteq flags

\* a selector that masks nothing off
ClearBit_Kept(bitmap, bit) == bitmap

\* bitmap &= ~UCS_BIT(bit)
ClearBit(bitmap, bit) == bitmap \ {bit}

(***************************************************************************)
(* The transports the inputs are built from.  TlAttr(t) is the attribute   *)
(* record of a local resource of transport t (interface and memory domain  *)
(* attributes together).                                                   *)
(***************************************************************************)
TlTypes == {"self", "shm", "rc", "ud", "dc", "ugni"}

TlAttr(t) ==
    CASE t = "self" ->
           [tl_name |-> "self", dev_type |-> "SELF", rsc_flags |-> {},
            cap_flags |-> {"AM_SHORT", "AM_BCOPY", "TAG_EAGER_BCOPY",
                           "TAG_RNDV_ZCOPY", "GET_ZCOPY", "PENDING", "CB_SYNC"},
            atomic |-> NoAtomic, lat_ovh |-> 0, lat_growth |-> 0,
            overhead |-> 5, bandwidth |-> 8192, priority |-> 0,
            max_bcopy |-> 8192, md_flags |-> {"REG"},
            reg_ovh |-> 0, reg_growth |-> 0]
      [] t = "shm" ->
           [tl_name |-> "shm", dev_type |-> "SHM", rsc_flags |-> {},
            cap_flags |-> {"AM_SHORT", "AM_BCOPY", "PUT_SHORT", "PUT_BCOPY",
                           "GET_BCOPY", "CONNECT_TO_IFACE", "PENDING",
                           "CB_SYNC", "CB_ASYNC", "EVENT_RECV",
                           "EVENT_SEND_COMP"},
            atomic |-> AllAtomic, lat_ovh |-> 10, lat_growth |-> 0,
            overhead |-> 5, bandwidth |-> 4096, priority |-> 0,
            max_bcopy |-> 8192, md_flags |-> {"ALLOC"},
            reg_ovh |-> 0, reg_growth |-> 0]
      [] t = "mm" ->
           [tl_name |-> "mm", dev_type |-> "SHM", rsc_flags |-> {},
            cap_flags |-> {"AM_SHORT", "AM_BCOPY", "PUT_SHORT", "PUT_BCOPY",
                           "GET_BCOPY", "CONNECT_TO_IFACE", "PENDING",
                           "CB_SYNC", "CB_ASYNC", "EVENT_RECV",
                           "EVENT_SEND_COMP"},
            atomic |-> AllAtomic, lat_ovh |-> 10, lat_growth |-> 0,
            overhead |-> 5, bandwidth |-> 4096, priority |-> 0,
            max_bcopy |-> 8192, md_flags |-> {"REG"},
            reg_ovh |-> 0, reg_growth |-> 0]
      [] t = "rc" ->
           [tl_name |-> "rc", dev_type |-> "NET", rsc_flags |-> {},
            cap_flags |-> {"AM_SHORT", "AM_BCOPY", "AM_ZCOPY", "PUT_SHORT",
                           "PUT_BCOPY", "PUT_ZCOPY", "GET_BCOPY", "GET_ZCOPY",
                           "TAG_EAGER_BCOPY", "TAG_RNDV_ZCOPY",
                           "CONNECT_TO_EP", "PENDING", "CB_SYNC",
                           "EVENT_RECV", "EVENT_SEND_COMP",
                           "ERRHANDLE_PEER_FAILURE"},
            atomic |-> AllAtomic, lat_ovh |-> 60, lat_growth |-> 0,
            overhead |-> 10, bandwidth |-> 1024, priority |-> 0,
            max_bcopy |-> 8192, md_flags |-> {"REG", "NEED_RKEY"},
            reg_ovh |-> 10, reg_growth |-> 0]
      [] t = "ud" ->
           [tl_name |-> "ud", dev_type |-> "NET", rsc_flags |-> {},
            cap_flags |-> {"AM_SHORT", "AM_BCOPY", "CONNECT_TO_IFACE",
                           "PENDING", "CB_SYNC", "CB_ASYNC", "EVENT_RECV_SIG",
                           "EVENT_SEND_COMP", "ERRHANDLE_PEER_FAILURE"},
            atomic |-> NoAtomic, lat_ovh |-> 70, lat_growth |-> 0,
            overhead |-> 10, bandwidth |-> 512, priority |-> 1,
            max_bcopy |-> 4096, md_flags |-> {"REG", "NEED_RKEY"},
            reg_ovh |-> 10, reg_growth |-> 0]
      [] t = "dc" ->
           [tl_name |-> "dc", dev_type |-> "NET", rsc_flags |-> {},
            cap_flags |-> {"AM_SHORT", "AM_BCOPY", "AM_ZCOPY", "PUT_SHORT",
                           "PUT_BCOPY", "PUT_ZCOPY", "GET_BCOPY", "GET_ZCOPY",
                           "TAG_EAGER_BCOPY", "TAG_RNDV_ZCOPY",
                           "CONNECT_TO_IFACE", "PENDING", "CB_SYNC",
                           "CB_ASYNC", "EVENT_RECV_SIG", "EVENT_SEND_COMP"},
            atomic |-> AllAtomic, lat_ovh |-> 80, lat_growth |-> 0,
            overhead |-> 10, bandwidth |-> 2048, priority |-> 2,
            max_bcopy |-> 8192, md_flags |-> {"REG", "ALLOC", "NEED_RKEY"},
            reg_ovh |-> 10, reg_growth |-> 0]
      [] OTHER ->
           [tl_name |-> "ugni", dev_type |-> "NET", rsc_flags |-> {},
            cap_flags |-> {"AM_SHORT", "AM_BCOPY", "PUT_SHORT", "PUT_BCOPY",
                           "PUT_ZCOPY", "GET_BCOPY", "GET_ZCOPY",
                           "CONNECT_TO_IFACE", "PENDING", "CB_SYNC",
                           "CB_ASYNC", "EVENT_RECV", "EVENT_SEND_COMP"},
            atomic |-> NoAtomic, lat_ovh |-> 90, lat_growth |-> 1,
            overhead |-> 10, bandwidth |-> 0, priority |-> 0,
            max_bcopy |-> 2048, md_flags |-> {"REG", "NEED_RKEY"},
            reg_ovh |-> 10, reg_growth |-> 0]

\* A local resource of transport t on memory domain md and device dev:
\* context->tl_rscs[i] and the worker's interface attributes of it.
LocalRsc(t, md, dev) ==
    LET a == TlAttr(t) IN
    [tl_name |-> a.tl_name, md_index |-> md, dev_index |-> dev,
     dev_type |-> a.dev_type, rsc_flags |-> a.rsc_flags,
     cap_flags |-> a.cap_flags, atomic |-> a.atomic,
     lat_ovh |-> a.lat_ovh, lat_growth |-> a.lat_growth,
     overhead |-> a.overhead, bandwidth |-> a.bandwidth,
     priority |-> a.priority, max_bcopy |-> a.max_bcopy]

\* context->tl_mds[md].attr of the memory domain a transport t opens.
MdAttr(t) ==
    LET a == TlAttr(t) IN
    [flags |-> a.md_flags, reg_ovh |-> a.reg_ovh, reg_growth |-> a.reg_growth]

\* The address entry the peer packs for a resource of transport t: only the
\* interface flags of UCP_ADDRESS_IFACE_FLAGS and the REG / ALLOC MD flags
\* travel in the packed address.
RemoteEntry(t, md, dev) ==
    LET a == TlAttr(t) IN
    [tl_name_csum |-> a.tl_name, md_index |-> md, dev_index |-> dev,
     md_flags |-> a.md_flags \cap {"REG", "ALLOC"},
     cap_flags |-> a.cap_flags \cap UCP_ADDRESS_IFACE_FLAGS,
     atomic |-> a.atomic, overhead |-> a.overhead,
     bandwidth |-> a.bandwidth, priority |-> a.priority,
     lat_ovh |-> a.lat_ovh]

(***************************************************************************)
(* Helpers of the worker and the context.  c is the record of the call's   *)
(* inputs: c.tl_rscs, c.tl_mds, c.tl_bitmap, c.num_tls (context),          *)
(* c.address_list, c.address_count, c.features, c.params, c.ep_init_flags, *)
(* c.key_err_mode, c.max_rndv_lanes, c.max_eager_lanes, c.est_num_eps,     *)
(* c.mem_type_access_tls, c.atomic_tls.                                    *)
(***************************************************************************)
ucp_worker_is_tl_p2p(c, rsc_index) ==
    "CONNECT_TO_EP" \in c.tl_rscs[rsc_index].cap_flags

\* the transport-name checksums match (the device check of the transport
\* layer always passes between the devices of the model)
ucp_wireup_is_reachable(c, rsc_index, ae) ==
    c.tl_rscs[rsc_index].tl_name = ae.tl_name_csum

ucp_wireup_is_rsc_self_or_shm(c, rsc_index) ==
    \/ c.tl_rscs[rsc_index].dev_type = "SHM"
    \/ c.tl_rscs[rsc_index].dev_type = "SELF"

(***************************************************************************)
(* Scoring functions.                                                      *)
(***************************************************************************)
ucp_wireup_tl_iface_latency(c, iface_attr, remote_iface_attr) ==
    Max(iface_attr.lat_ovh, remote_iface_attr.lat_ovh) +
    (iface_attr.lat_growth * c.est_num_eps)

MinBw(iface_attr, remote_iface_attr) ==
    Min(iface_attr.bandwidth, remote_iface_attr.bandwidth)

ucp_wireup_rma_score_func(c, md_attr, iface_attr, remote_iface_attr) ==
    IF MinBw(iface_attr, remote_iface_attr) = 0 THEN 0
    ELSE 1000 \div (ucp_wireup_tl_iface_latency(c, iface_attr, remote_iface_attr) +
                    iface_attr.overhead +
                    (4096 \div MinBw(iface_attr, remote_iface_attr)))

ucp_wireup_amo_score_func(c, md_attr, iface_attr, remote_iface_attr) ==
    1000 \div (ucp_wireup_tl_iface_latency(c, iface_attr, remote_iface_attr) +
               iface_attr.overhead)

ucp_wireup_am_score_func(c, md_attr, iface_attr, remote_iface_attr) ==
    1000 \div (ucp_wireup_tl_iface_latency(c, iface_attr, remote_iface_attr) +
               iface_attr.overhead + remote_iface_attr.overhead)

ucp_wireup_rma_bw_score_func(c, md_attr, iface_attr, remote_iface_attr) ==
    IF MinBw(iface_attr, remote_iface_attr) = 0 THEN 0
    ELSE 1000000 \div ((262144 \div MinBw(iface_attr, remote_iface_attr)) +
                       ucp_wireup_tl_iface_latency(c, iface_attr, remote_iface_attr) +
                       iface_attr.overhead + md_attr.reg_ovh +
                       (262144 * md_attr.reg_growth))

ucp_wireup_am_bw_score_func(c, md_attr, iface_attr, remote_iface_attr) ==
    IF MinBw(iface_attr, remote_iface_attr) = 0 THEN 0
    ELSE (iface_attr.max_bcopy * 10) \div
         ((iface_attr.max_bcopy \div MinBw(iface_attr, remote_iface_attr)) +
          iface_attr.overhead + remote_iface_attr.overhead +
          ucp_wireup_tl_iface_latency(c, iface_attr, remote_iface_attr))

ucp_wireup_aux_score_func(c, md_attr, iface_attr, remote_iface_attr) ==
    1000 \div (ucp_wireup_tl_iface_latency(c, iface_attr, remote_iface_attr) +
               iface_attr.overhead + remote_iface_attr.overhead)

\* criteria->calc_score(context, md_attr, iface_attr, &ae->iface_attr)
calc_score(criteria, c, md_attr, iface_attr, remote_iface_attr) ==
    CASE criteria.calc_score = "rma" ->
           ucp_wireup_rma_score_func(c, md_attr, iface_attr, remote_iface_attr)
      [] criteria.calc_score = "amo" ->
           ucp_wireup_amo_score_func(c, md_attr, iface_attr, remote_iface_attr)
      [] criteria.calc_score = "am" ->
           ucp_wireup_am_score_func(c, md_attr, iface_attr, remote_iface_attr)
      [] criteria.calc_score = "rma_bw" ->
           ucp_wireup_rma_bw_score_func(c, md_attr, iface_attr, remote_iface_attr)
      [] criteria.calc_score = "am_bw" ->
           ucp_wireup_am_bw_score_func(c, md_attr, iface_attr, remote_iface_attr)
      [] OTHER ->
           ucp_wireup_aux_score_func(c, md_attr, iface_attr, remote_iface_attr)

\* epsilon * max(|val1|, |val2|, 1), in units of 1 / EPSILON_INV
ucp_calc_epsilon(val1, val2) ==
    Max(Max(Abs(val1), Abs(val2)), 1)

ucs_signum(x) == IF x > 0 THEN 1 ELSE IF x < 0 THEN -1 ELSE 0

ucp_wireup_score_cmp(score1, score2) ==
    LET diff == score1 - score2 IN
    IF Abs(diff) * EPSILON_INV < ucp_calc_epsilon(score1, score2)
    THEN 0 ELSE ucs_signum(diff)

(***************************************************************************)
(* Criteria.                                                               *)
(***************************************************************************)
\* ucp_wireup_criteria_t criteria = {0}
ZeroCriteria ==
    [title |-> "", local_md_flags |-> {}, remote_md_flags |-> {},
     local_iface_flags |-> {}, remote_iface_flags |-> {},
     local_atomic_flags |-> NoAtomic, remote_atomic_flags |-> NoAtomic,
     calc_score |-> "", tl_rsc_flags |-> {}]

AtomicContains(have, need) ==
    /\ ucs_test_all_flags(have.op32, need.op32)
    /\ ucs_test_all_flags(have.op64, need.op64)
    /\ ucs_test_all_flags(have.fop32, need.fop32)
    /\ ucs_test_all_flags(have.fop64, need.fop64)

(***************************************************************************)
(* ucp_wireup_select_transport: the criteria evaluator.                    *)
(***************************************************************************)
\* first loop: the remote entries that satisfy the criteria
addr_index_map(c, criteria, remote_md_map, remote_dev_bitmap) ==
    {addr_index \in 0..(c.address_count - 1) :
        LET ae == c.address_list[addr_index] IN
        /\ ae.dev_index \in remote_dev_bitmap
        /\ ae.md_index \in remote_md_map
        /\ ucs_test_all_flags(ae.md_flags, criteria.remote_md_flags)
        /\ ucs_test_all_flags(ae.cap_flags, criteria.remote_iface_flags)
        /\ AtomicContains(ae.atomic, criteria.remote_atomic_flags)}

\* an evaluator that does not look at the allowed local devices
LocalEligible_AnyDevice(c, criteria, tl_bitmap, local_dev_bitmap, rsc_index) ==
    LET rsc == c.tl_rscs[rsc_index]
        md_attr == c.tl_mds[rsc.md_index]
    IN  /\ rsc_index \in c.tl_bitmap
        /\ ~(("AUX" \in rsc.rsc_flags) /\ ~("AUX" \in criteria.tl_rsc_flags))
        /\ ucs_test_all_flags(md_attr.flags, criteria.local_md_flags)
        /\ ucs_test_all_flags(rsc.cap_flags, criteria.local_iface_flags)
        /\ AtomicContains(rsc.atomic, criteria.local_atomic_flags)
        /\ rsc_index \in tl_bitmap

\* second loop: the local resources that pass the flag and bitmap checks
LocalEligible(c, criteria, tl_bitmap, local_dev_bitmap, rsc_index) ==
    LET rsc == c.tl_rscs[rsc_index]
        md_attr == c.tl_mds[rsc.md_index]
    IN  /\ rsc_index \in c.tl_bitmap
        /\ ~(("AUX" \in rsc.rsc_flags) /\ ~("AUX" \in criteria.tl_rsc_flags))
        /\ ucs_test_all_flags(md_attr.flags, criteria.local_md_flags)
        /\ ucs_test_all_flags(rsc.cap_flags, criteria.local_iface_flags)
        /\ AtomicContains(rsc.atomic, criteria.local_atomic_flags)
        /\ rsc_index \in tl_bitmap
        /\ rsc.dev_index \in local_dev_bitmap

\* the body of the inner loop for one (rsc_index, addr_index): keep or
\* replace the best pair found so far
BestUpdate(c, criteria, best, rsc_index, addr_index) ==
    LET rsc      == c.tl_rscs[rsc_index]
        ae       == c.address_list[addr_index]
        score    == calc_score(criteria, c, c.tl_mds[rsc.md_index], rsc, ae)
        priority == (rsc.priority + ae.priority) % 256
    IN  IF \/ ~best.found
           \/ ucp_wireup_score_cmp(score, best.score) > 0
           \/ /\ ucp_wireup_score_cmp(score, best.score) = 0
              /\ priority > best.priority
        THEN [found |-> TRUE, rsc_index |-> rsc_index,
              addr_index |-> addr_index, score |-> score,
              priority |-> priority]
        ELSE best

\* the inner loop over the remote entries for the local resource rsc_index,
\* entered with the best pair found so far
ScanAddresses(c, criteria, amap, best, rsc_index) ==
    LET scan[k \in 0..c.address_count] ==
            IF k = 0 THEN best
            ELSE IF /\ (k - 1) \in amap
                    /\ ucp_wireup_is_reachable(c, rsc_index,
                                               c.address_list[k - 1])
                 THEN BestUpdate(c, criteria, scan[k - 1], rsc_index, k - 1)
                 ELSE scan[k - 1]
    IN  scan[c.address_count]

ucp_wireup_select_transport(c, criteria, tl_bitmap, remote_md_map, local_dev_bitmap, remote_dev_bitmap) ==
    LET amap == addr_index_map(c, criteria, remote_md_map, remote_dev_bitmap)
        init == [found |-> FALSE, rsc_index |-> 0, addr_index |-> 0,
                 score |-> 0, priority |-> 0]
        \* scan[k]: the best pair after the resources 0..k-1
        scan[k \in 0..c.num_tls] ==
            IF k = 0 THEN init
            ELSE LET before == scan[k - 1]
                 IN  IF /\ before.found \in BOOLEAN
                        /\ LocalEligible(c, criteria, tl_bitmap,
                                         local_dev_bitmap, k - 1)
                     THEN ScanAddresses(c, criteria, amap, before, k - 1)
                     ELSE before
        best == IF amap = {} THEN init ELSE scan[c.num_tls]
    IN  [status |-> IF best.found THEN "OK" ELSE "UNREACHABLE",
         rsc_index |-> best.rsc_index, addr_index |-> best.addr_index,
         score |-> best.score]

(***************************************************************************)
(* The lane table.  A table is [lane_descs, num_lanes, fault]:             *)
(* lane_descs maps 0..num_lanes-1 to lane descriptors; fault is "" or the  *)
(* assertion of ucp_wireup_add_lane_desc that fired.                       *)
(***************************************************************************)
LaneDesc(select_info, proxy_lane, dst_md_index, usage) ==
    [rsc_index |-> select_info.rsc_index, addr_index |-> select_info.addr_index,
     proxy_lane |-> proxy_lane, dst_md_index |-> dst_md_index, usage |-> usage,
     am_bw_score |-> 0, rma_score |-> 0, rma_bw_score |-> 0, amo_score |-> 0]

\* out_update_score: the per-role scores of the roles in usage
UpdateScore(lane_desc, select_info, usage) ==
    [lane_desc EXCEPT
        !.am_bw_score  = IF "AM_BW" \in usage THEN select_info.score ELSE @,
        !.rma_score    = IF "RMA" \in usage THEN select_info.score ELSE @,
        !.rma_bw_score = IF "RMA_BW" \in usage THEN select_info.score ELSE @,
        !.amo_score    = IF "AMO" \in usage THEN select_info.score ELSE @]

\* a search that finds no lane on the resources of the selection
SamePair_Never(lane_desc, select_info) == FALSE

\* the lane is on the resources of the selection
SamePair(lane_desc, select_info) ==
    /\ lane_desc.rsc_index = select_info.rsc_index
    /\ lane_desc.addr_index = select_info.addr_index

\* the existing self-proxy lane is left pointing at itself
RepointedProxyLane_Kept(lane, num_lanes) == lane

\* where the existing self-proxy lane points once the new non-proxy lane,
\* which will get the index num_lanes, is added
RepointedProxyLane(lane, num_lanes) == num_lanes

\* proxy_lane of the lane that is appended: the non-proxy lane found on the
\* same resources, else the lane itself for a proxy
NewProxyLane(stop, lane, is_proxy, num_lanes) ==
    IF stop = "add_lane" THEN lane
    ELSE IF is_proxy THEN num_lanes ELSE UCP_NULL_LANE

ucp_wireup_add_lane_desc(tbl, select_info, dst_md_index, usage, is_proxy) ==
    LET n == tbl.num_lanes
        start == [descs |-> tbl.lane_descs, proxy_changed |-> FALSE,
                  stop |-> "", lane |-> 0]
        \* walk[i]: the state of the search loop before it looks at lane i
        walk[i \in 0..n] ==
            IF i = 0 THEN start
            ELSE LET w    == walk[i - 1]
                     lane == i - 1
                     ld   == w.descs[lane]
                 IN  IF w.stop # "" THEN w
                     ELSE IF ~SamePair(ld, select_info)
                     THEN w
                     ELSE IF dst_md_index # ld.dst_md_index
                     THEN [w EXCEPT !.stop = "assert_dst_md_index", !.lane = lane]
                     ELSE IF ld.usage \cap usage # {}
                     THEN [w EXCEPT !.stop = "assert_usage", !.lane = lane]
                     ELSE IF is_proxy /\ ld.proxy_lane = UCP_NULL_LANE
                     THEN [w EXCEPT !.stop = "add_lane", !.lane = lane]
                     ELSE IF ~is_proxy /\ ld.proxy_lane = lane
                     THEN [w EXCEPT !.descs[lane].proxy_lane =
                                        RepointedProxyLane(lane, n),
                                    !.proxy_changed = TRUE]
                     ELSE IF ~is_proxy /\ ld.proxy_lane = UCP_NULL_LANE
                     THEN IF w.proxy_changed
                          THEN [w EXCEPT !.stop = "assert_proxy_changed",
                                         !.lane = lane]
                          ELSE [w EXCEPT !.descs[lane].usage = @ \cup usage,
                                         !.stop = "update_score", !.lane = lane]
                     ELSE w
        end == walk[n]
        proxy_lane == NewProxyLane(end.stop, end.lane, is_proxy, n)
        new_desc == UpdateScore(LaneDesc(select_info, proxy_lane, dst_md_index,
                                         usage), select_info, usage)
    IN  IF tbl.fault # "" THEN tbl
        ELSE IF end.stop \in {"assert_dst_md_index", "assert_usage",
                              "assert_proxy_changed"}
        THEN [tbl EXCEPT !.fault = end.stop]
        ELSE IF end.stop = "update_score"
        THEN [tbl EXCEPT !.lane_descs =
                 [end.descs EXCEPT ![end.lane] =
                     UpdateScore(@, select_info, usage)]]
        ELSE \* out_add_lane: lane_descs[num_lanes] is written without a check
             \* of num_lanes against the capacity UCP_MAX_LANES of the array
             [tbl EXCEPT !.lane_descs =
                 [l \in 0..n |-> IF l < n THEN end.descs[l] ELSE new_desc],
              !.num_lanes = n + 1,
              !.fault = IF n >= UCP_MAX_LANES THEN "lane_descs_overflow" ELSE ""]

(***************************************************************************)
(* The selection context.  x is ucp_wireup_select_ctx_t plus the status    *)
(* of the pass that ran last: x.lane_descs, x.num_lanes, x.fault (the      *)
(* lane table), x.ep_init_flags, x.allow_am, x.am_info, x.am_info_valid    *)
(* (FALSE while am_info is the uninitialised stack memory), x.status.      *)
(***************************************************************************)
ucp_ep_get_context_features(c) == c.features

ucp_wireup_ep_params_is_err_mode_peer(params) ==
    /\ "ERR_HANDLING_MODE" \in params.field_mask
    /\ params.err_mode = "PEER"

ucp_wireup_fill_ep_params_criteria(criteria, params) ==
    IF ucp_wireup_ep_params_is_err_mode_peer(params)
    THEN [criteria EXCEPT !.local_iface_flags = @ \cup {"ERRHANDLE_PEER_FAILURE"}]
    ELSE criteria

ucp_wireup_fill_aux_criteria(params) ==
    ucp_wireup_fill_ep_params_criteria(
        [ZeroCriteria EXCEPT
            !.title = "auxiliary",
            !.local_iface_flags = {"CONNECT_TO_IFACE", "AM_BCOPY", "PENDING"},
            !.remote_iface_flags = {"CONNECT_TO_IFACE", "AM_BCOPY", "CB_ASYNC"},
            !.calc_score = "aux",
            !.tl_rsc_flags = {"AUX"}],
        params)

ucp_wireup_clean_amo_criteria(criteria) ==
    [criteria EXCEPT !.remote_atomic_flags = NoAtomic,
                     !.local_atomic_flags = NoAtomic]

\* a selector that emulates over active messages in error mode PEER too
ucp_wireup_allow_am_emulation_layer_AnyErrMode(params, ep_init_flags) ==
    ~("MEM_TYPE" \in ep_init_flags)

\* a selector that never emulates over active messages
ucp_wireup_allow_am_emulation_layer_Never(params, ep_init_flags) == FALSE

ucp_wireup_allow_am_emulation_layer(params, ep_init_flags) ==
    /\ ~("MEM_TYPE" \in ep_init_flags)
    /\ ~ucp_wireup_ep_params_is_err_mode_peer(params)

ucp_wireup_select_ctx_init(c) ==
    [lane_descs |-> <<>>, num_lanes |-> 0, fault |-> "",
     ep_init_flags |-> c.ep_init_flags,
     allow_am |-> ucp_wireup_allow_am_emulation_layer(c.params, c.ep_init_flags),
     am_info |-> [status |-> "", rsc_index |-> 0, addr_index |-> 0, score |-> 0],
     am_info_valid |-> FALSE,
     status |-> "OK"]

ucp_wireup_unset_tl_by_md(c, tl_bitmap, rsc_index) ==
    tl_bitmap \ {i \in c.tl_bitmap :
                    c.tl_rscs[i].md_index = c.tl_rscs[rsc_index].md_index}

\* a loop that admits every candidate for allocated memory
BeatsRegScore_Always(score, reg_score) == TRUE

\* the candidate for allocated memory is better than the lane for
\* registered memory
BeatsRegScore(score, reg_score) == ucp_wireup_score_cmp(score, reg_score) > 0

\* the while loop of ucp_wireup_add_memaccess_lanes (remote memory the peer
\* allocated), entered with the lane of the registered-memory selection added
RECURSIVE MemaccessAllocLoop(_, _, _, _, _, _, _)
MemaccessAllocLoop(c, x, mem_criteria, tl_bitmap, remote_md_map, reg_score, usage) ==
    IF ~(c.address_count > 0) \/ x.fault # "" THEN x
    ELSE LET select_info == ucp_wireup_select_transport(c, mem_criteria, tl_bitmap,
                                remote_md_map, ALL_BITS, ALL_BITS)
             dst_md_index == c.address_list[select_info.addr_index].md_index
         IN  IF \/ select_info.status # "OK"
                \/ ~BeatsRegScore(select_info.score, reg_score)
             THEN x
             ELSE MemaccessAllocLoop(c,
                      ucp_wireup_add_lane_desc(x, select_info, dst_md_index,
                                               usage, FALSE),
                      mem_criteria, 
                      ucp_wireup_unset_tl_by_md(c, tl_bitmap, select_info.rsc_index),
                      ClearBit(remote_md_map, dst_md_index), reg_score, usage)

ucp_wireup_add_memaccess_lanes(c, x, criteria, tl_bitmap, usage) ==
    LET reg_criteria == [criteria EXCEPT !.remote_md_flags = {"REG"} \cup @]
        alloc_criteria == [criteria EXCEPT !.remote_md_flags = {"ALLOC"} \cup @]
        select_info == ucp_wireup_select_transport(c, reg_criteria, tl_bitmap,
                           ALL_BITS, ALL_BITS, ALL_BITS)
        dst_md_index == c.address_list[select_info.addr_index].md_index
    IN  IF select_info.status # "OK"
        THEN IF x.allow_am
             THEN [x EXCEPT !.ep_init_flags = @ \cup {"CREATE_AM_LANE"},
                            !.status = "OK"]
             ELSE [x EXCEPT !.status = select_info.status]
        ELSE [MemaccessAllocLoop(c,
                  ucp_wireup_add_lane_desc(x, select_info, dst_md_index, usage, FALSE),
                  alloc_criteria,
                  ucp_wireup_unset_tl_by_md(c, tl_bitmap, select_info.rsc_index),
                  ClearBit(ALL_BITS, dst_md_index), select_info.score, usage)
              EXCEPT !.status = "OK"]

\* the criteria of the RMA pass
RmaCriteria(c, ep_init_flags) ==
    LET flags == IF "MEM_TYPE" \in ep_init_flags
                 THEN [title |-> "copy across memory types",
                       remote |-> {"PUT_SHORT"},
                       local |-> {"PUT_SHORT"}]
                 ELSE [title |-> "remote %s memory access",
                       remote |-> {"PUT_SHORT", "PUT_BCOPY", "GET_BCOPY"},
                       local |-> {"PUT_SHORT", "PUT_BCOPY", "GET_BCOPY",
                                  "PENDING"}]
    IN  ucp_wireup_fill_ep_params_criteria(
            [ZeroCriteria EXCEPT
                !.title = flags.title,
                !.remote_iface_flags = flags.remote,
                !.local_iface_flags = flags.local,
                !.calc_score = "rma"],
            c.params)

ucp_wireup_add_rma_lanes(c, x) ==
    IF /\ ~("RMA" \in ucp_ep_get_context_features(c))
       /\ ~("MEM_TYPE" \in x.ep_init_flags)
    THEN [x EXCEPT !.status = "OK"]
    ELSE ucp_wireup_add_memaccess_lanes(c, x, RmaCriteria(c, x.ep_init_flags),
                                        ALL_BITS, {"RMA"})

\* the atomic operations the context asks for, per width
ucp_context_uct_atomic_iface_flags(c) ==
    [op32  |-> IF "AMO32" \in c.features THEN AtomicOps ELSE {},
     fop32 |-> IF "AMO32" \in c.features THEN AtomicFops ELSE {},
     op64  |-> IF "AMO64" \in c.features THEN AtomicOps ELSE {},
     fop64 |-> IF "AMO64" \in c.features THEN AtomicFops ELSE {}]

\* the criteria of the AMO pass
AmoCriteria(c) ==
    ucp_wireup_fill_ep_params_criteria(
        [ZeroCriteria EXCEPT
            !.title = "atomic operations on %s memory",
            !.remote_atomic_flags = ucp_context_uct_atomic_iface_flags(c),
            !.local_iface_flags = {"PENDING"},
            !.local_atomic_flags = ucp_context_uct_atomic_iface_flags(c),
            !.calc_score = "amo"],
        c.params)

ucp_wireup_add_amo_lanes(c, x) ==
    IF \/ c.features \cap {"AMO32", "AMO64"} = {}
       \/ "MEM_TYPE" \in x.ep_init_flags
    THEN [x EXCEPT !.status = "OK"]
    ELSE LET criteria == AmoCriteria(c)
             tl_bitmap == c.atomic_tls \cup
                          {rsc_index \in 0..(c.num_tls - 1) :
                              ~ucp_worker_is_tl_p2p(c, rsc_index)}
         IN  ucp_wireup_add_memaccess_lanes(c, x, criteria, tl_bitmap, {"AMO"})

ucp_wireup_is_lane_proxy_Always(c, rsc_index, remote_cap_flags) == TRUE

ucp_wireup_is_lane_proxy(c, rsc_index, remote_cap_flags) ==
    /\ ~ucp_worker_is_tl_p2p(c, rsc_index)
    /\ (remote_cap_flags \cap UCP_WORKER_UCT_RECV_EVENT_CAP_FLAGS) =
       {"EVENT_RECV_SIG"}

ucp_wireup_is_am_required(c, x) ==
    \/ "CREATE_AM_LANE" \in x.ep_init_flags
    \/ "SOCK_ADDR" \in c.params.field_mask
    \/ /\ ~("MEM_TYPE" \in x.ep_init_flags)
       /\ ucp_ep_get_context_features(c) \cap {"TAG", "STREAM", "AM"} # {}
    \/ \E lane \in 0..(x.num_lanes - 1) :
           ucp_worker_is_tl_p2p(c, x.lane_descs[lane].rsc_index)

\* the local interface flags the AM, AM-BW and RMA-BW criteria add when both
\* TAG and WAKEUP are features
WakeupFlags(c) ==
    IF ucs_test_all_flags(ucp_ep_get_context_features(c), {"TAG", "WAKEUP"})
    THEN UCP_WORKER_UCT_UNSIG_EVENT_CAP_FLAGS ELSE {}

\* the criteria of the AM pass
AmCriteria(c) ==
    LET criteria0 == ucp_wireup_fill_ep_params_criteria(
                         [ZeroCriteria EXCEPT
                             !.title = "active messages",
                             !.remote_iface_flags = {"AM_BCOPY", "CB_SYNC"},
                             !.local_iface_flags = {"AM_BCOPY"},
                             !.calc_score = "am"],
                         c.params)
    IN  [criteria0 EXCEPT !.local_iface_flags = @ \cup WakeupFlags(c)]

ucp_wireup_add_am_lane(c, x) ==
    IF ~ucp_wireup_is_am_required(c, x) THEN [x EXCEPT !.status = "OK"]
    ELSE LET criteria == AmCriteria(c)
             am_info == ucp_wireup_select_transport(c, criteria, ALL_BITS,
                            ALL_BITS, ALL_BITS, ALL_BITS)
             x1 == [x EXCEPT !.am_info = am_info, !.am_info_valid = TRUE]
             ae == c.address_list[am_info.addr_index]
             is_proxy == ucp_wireup_is_lane_proxy(c, am_info.rsc_index, ae.cap_flags)
         IN  IF am_info.status # "OK"
             THEN [x1 EXCEPT !.status = am_info.status]
             ELSE [ucp_wireup_add_lane_desc(x1, am_info, ae.md_index, {"AM"},
                                            is_proxy)
                   EXCEPT !.status = "OK"]

\* the while loop of ucp_wireup_add_bw_lanes
RECURSIVE BwLoop(_, _, _, _, _, _, _, _, _)
BwLoop(c, x, bw_info, allow_proxy, tl_bitmap, num_lanes, md_map, local_dev_bitmap, remote_dev_bitmap) ==
    IF \/ ~(num_lanes < bw_info.max_lanes)
       \/ ~(Cardinality(md_map) < UCP_MAX_OP_MDS)
       \/ x.fault # ""
    THEN x
    ELSE LET select_info == ucp_wireup_select_transport(c, bw_info.criteria,
                                tl_bitmap, ALL_BITS, local_dev_bitmap,
                                remote_dev_bitmap)
             ae == c.address_list[select_info.addr_index]
             is_proxy == /\ allow_proxy
                         /\ ucp_wireup_is_lane_proxy(c, select_info.rsc_index,
                                                     ae.cap_flags)
             x1 == ucp_wireup_add_lane_desc(x, select_info, ae.md_index,
                                            bw_info.usage, is_proxy)
         IN  IF select_info.status # "OK" THEN x
             ELSE IF ucp_wireup_is_rsc_self_or_shm(c, select_info.rsc_index)
             THEN x1
             ELSE BwLoop(c, x1, bw_info, allow_proxy, tl_bitmap, num_lanes + 1,
                         md_map \cup {c.tl_rscs[select_info.rsc_index].md_index},
                         ClearBit(local_dev_bitmap,
                                  c.tl_rscs[select_info.rsc_index].dev_index),
                         ClearBit(remote_dev_bitmap, ae.dev_index))

ucp_wireup_add_bw_lanes(c, x, bw_info, allow_proxy, tl_bitmap) ==
    BwLoop(c, x, bw_info, allow_proxy, tl_bitmap, 0, bw_info.md_map,
           bw_info.local_dev_bitmap, bw_info.remote_dev_bitmap)

ucp_wireup_add_am_bw_lanes(c, x) ==
    IF \/ ~("TAG" \in ucp_ep_get_context_features(c))
       \/ "MEM_TYPE" \in x.ep_init_flags
       \/ c.max_eager_lanes < 2
    THEN [x EXCEPT !.status = "OK"]
    ELSE LET criteria0 == ucp_wireup_fill_ep_params_criteria(
                             ucp_wireup_clean_amo_criteria(
                                 [ZeroCriteria EXCEPT
                                     !.title = "high-bw active messages",
                                     !.remote_iface_flags = {"AM_BCOPY", "CB_SYNC"},
                                     !.local_iface_flags = {"AM_BCOPY"},
                                     !.calc_score = "am_bw"]),
                             c.params)
             criteria == [criteria0 EXCEPT !.local_iface_flags = @ \cup WakeupFlags(c)]
             am_lanes == {l \in 0..(x.num_lanes - 1) : "AM" \in x.lane_descs[l].usage}
             \* the first lane with the AM usage bit
             am == CHOOSE l \in am_lanes : \A m \in am_lanes : l <= m
             rsc_index == x.lane_descs[am].rsc_index
             addr_index == x.lane_descs[am].addr_index
             bw_info == [criteria |-> criteria,
                         local_dev_bitmap |->
                             IF am_lanes = {} THEN ALL_BITS
                             ELSE ClearBit(ALL_BITS,
                                           c.tl_rscs[rsc_index].dev_index),
                         remote_dev_bitmap |->
                             IF am_lanes = {} THEN ALL_BITS
                             ELSE ClearBit(ALL_BITS,
                                      c.address_list[addr_index].dev_index),
                         md_map |->
                             IF am_lanes = {} THEN {}
                             ELSE {c.tl_rscs[rsc_index].md_index},
                         max_lanes |-> c.max_eager_lanes - 1,
                         usage |-> {"AM_BW"}]
         IN  IF am_lanes # {} /\ ucp_wireup_is_rsc_self_or_shm(c, rsc_index)
             THEN [x EXCEPT !.status = "OK"]
             ELSE [ucp_wireup_add_bw_lanes(c, x, bw_info, TRUE, ALL_BITS)
                   EXCEPT !.status = "OK"]

\* the loop over the memory types of ucp_wireup_add_rma_bw_lanes
RECURSIVE RmaBwMemTypes(_, _, _, _)
RmaBwMemTypes(c, x, bw_info, mem_type) ==
    IF mem_type >= UCS_MEMORY_TYPE_LAST THEN x
    ELSE IF c.mem_type_access_tls[mem_type] = {}
    THEN RmaBwMemTypes(c, x, bw_info, mem_type + 1)
    ELSE RmaBwMemTypes(c,
             ucp_wireup_add_bw_lanes(c, x, bw_info, FALSE,
                                     c.mem_type_access_tls[mem_type]),
             bw_info, mem_type + 1)

ucp_wireup_add_rma_bw_lanes(c, x) ==
    IF /\ ~("MEM_TYPE" \in x.ep_init_flags)
       /\ ~("TAG" \in ucp_ep_get_context_features(c))
    THEN [x EXCEPT !.status = "OK"]
    ELSE LET md_flags == IF "MEM_TYPE" \in x.ep_init_flags THEN {} ELSE {"REG"}
             criteria0 == ucp_wireup_fill_ep_params_criteria(
                             ucp_wireup_clean_amo_criteria(
                                 [ZeroCriteria EXCEPT
                                     !.title = "high-bw remote memory access",
                                     !.remote_md_flags = md_flags,
                                     !.local_md_flags = md_flags,
                                     !.remote_iface_flags = {"GET_ZCOPY", "PUT_ZCOPY"},
                                     !.local_iface_flags =
                                         {"GET_ZCOPY", "PUT_ZCOPY", "PENDING"},
                                     !.calc_score = "rma_bw"]),
                             c.params)
             criteria == [criteria0 EXCEPT !.local_iface_flags = @ \cup WakeupFlags(c)]
             bw_info == [criteria |-> criteria,
                         local_dev_bitmap |-> ALL_BITS,
                         remote_dev_bitmap |-> ALL_BITS,
                         md_map |-> {},
                         max_lanes |-> c.max_rndv_lanes,
                         usage |-> {"RMA_BW"}]
         IN  [RmaBwMemTypes(c, x, bw_info, 0) EXCEPT !.status = "OK"]

\* am_score is select_ctx->am_info.score as the pass reads it
\* a TAG pass that selects with the criteria of the AM pass
TagCriteria_AsAm(c) == AmCriteria(c)

\* the criteria of the TAG pass
TagCriteria(c) ==
    LET tag_flags == {"TAG_EAGER_BCOPY", "TAG_RNDV_ZCOPY", "GET_ZCOPY",
                      "PENDING"}
    IN  [ZeroCriteria EXCEPT
            !.title = "tag_offload",
            !.local_md_flags = {"REG"},
            !.remote_md_flags = {"REG"},
            !.remote_iface_flags = tag_flags,
            !.local_iface_flags = tag_flags \cup
                (IF "WAKEUP" \in ucp_ep_get_context_features(c)
                 THEN UCP_WORKER_UCT_UNSIG_EVENT_CAP_FLAGS
                 ELSE {}),
            !.calc_score = "am"]

ucp_wireup_add_tag_lane(c, x, err_mode, am_score) ==
    IF \/ ~("TAG" \in ucp_ep_get_context_features(c))
       \/ err_mode # "NONE"
    THEN [x EXCEPT !.status = "OK"]
    ELSE LET criteria == TagCriteria(c)
             select_info == ucp_wireup_select_transport(c, criteria, ALL_BITS,
                                ALL_BITS, ALL_BITS, ALL_BITS)
             ae == c.address_list[select_info.addr_index]
             is_proxy == ucp_wireup_is_lane_proxy(c, select_info.rsc_index,
                                                  ae.cap_flags)
         IN  IF \/ select_info.status # "OK"
                \/ ucp_wireup_score_cmp(select_info.score, am_score) < 0
             THEN [x EXCEPT !.status = "OK"]
             ELSE [ucp_wireup_add_lane_desc(x, select_info, ae.md_index,
                                            {"TAG"}, is_proxy)
                   EXCEPT !.status = "OK"]

(***************************************************************************)
(* The finalizer.                                                          *)
(***************************************************************************)
LaneScore(lane_desc, token) ==
    CASE token = "am_bw"  -> lane_desc.am_bw_score
      [] token = "rma"    -> lane_desc.rma_score
      [] token = "rma_bw" -> lane_desc.rma_bw_score
      [] OTHER            -> lane_desc.amo_score

\* the comparator with the two results swapped: an ascending order
UCP_WIREUP_COMPARE_SCORE_Ascending(lane1, lane2, lanes, token) ==
    LET score1 == IF lane1 = UCP_NULL_LANE THEN 0 ELSE LaneScore(lanes[lane1], token)
        score2 == IF lane2 = UCP_NULL_LANE THEN 0 ELSE LaneScore(lanes[lane2], token)
    IN  IF score1 < score2 THEN -1 ELSE IF score1 > score2 THEN 1 ELSE 0

UCP_WIREUP_COMPARE_SCORE(lane1, lane2, lanes, token) ==
    LET score1 == IF lane1 = UCP_NULL_LANE THEN 0 ELSE LaneScore(lanes[lane1], token)
        score2 == IF lane2 = UCP_NULL_LANE THEN 0 ELSE LaneScore(lanes[lane2], token)
    IN  IF score1 < score2 THEN 1 ELSE IF score1 > score2 THEN -1 ELSE 0

\* one step of a stable sort: elem goes behind every element that does not
\* compare greater than it
SortInsert(sorted, elem, lanes, token) ==
    LET after == {i \in 1..Len(sorted) :
                     UCP_WIREUP_COMPARE_SCORE(sorted[i], elem, lanes, token) > 0}
        p == IF after = {} THEN Len(sorted) + 1
             ELSE CHOOSE i \in after : \A j \in after : i <= j
    IN  SubSeq(sorted, 1, p - 1) \o <<elem>> \o SubSeq(sorted, p, Len(sorted))

\* ucs_qsort_r over the sequence arr with the lane score comparator of token,
\* as a stable sort
RECURSIVE ucs_qsort_r(_, _, _)
ucs_qsort_r(arr, lanes, token) ==
    IF arr = <<>> THEN <<>>
    ELSE SortInsert(ucs_qsort_r(SubSeq(arr, 1, Len(arr) - 1), lanes, token),
                    arr[Len(arr)], lanes, token)

\* the role array after the first loop of ucp_wireup_construct_lanes and the
\* sort: slots base..UCP_MAX_LANES-1 are sorted, slot 0 of am_bw_lanes is not
RoleArray(x, old, role, token) ==
    LET filled == [i \in 0..(UCP_MAX_LANES - 1) |->
                      IF /\ i < x.num_lanes
                         /\ role \in x.lane_descs[i].usage
                      THEN i ELSE old[i]]
    IN  ucs_qsort_r([i \in 1..UCP_MAX_LANES |-> filled[i - 1]], x.lane_descs, token)

AmBwArray(x, old) ==
    LET filled == [i \in 0..(UCP_MAX_LANES - 1) |->
                      IF /\ i >= 1
                         /\ (i - 1) < x.num_lanes
                         /\ "AM_BW" \in x.lane_descs[i - 1].usage
                         /\ (i - 1) < UCP_MAX_LANES - 1
                      THEN i - 1 ELSE old[i]]
    IN  <<filled[0]>> \o
        ucs_qsort_r([i \in 1..(UCP_MAX_LANES - 1) |-> filled[i]],
                    x.lane_descs, "am_bw")

\* the key's field is left as the caller set it
DesignatedLane_Old(x, old, role) == old

\* the designated lane of a single-lane role: the assignment in the loop
\* over the lanes leaves the last lane that carries the usage bit
DesignatedLane(x, old, role) ==
    LET carry == {l \in 0..(x.num_lanes - 1) : role \in x.lane_descs[l].usage}
    IN  IF carry = {} THEN old
        ELSE CHOOSE l \in carry : \A m \in carry : m <= l

\* a check that accepts any flags
ucp_wireup_check_flags_Any(flags, required_flags) == TRUE

ucp_wireup_check_flags(flags, required_flags) ==
    ucs_test_all_flags(flags, required_flags)

RECURSIVE WireupMsgLaneLoop(_, _, _, _, _)
WireupMsgLaneLoop(c, x, criteria, lane, p2p_lane) ==
    IF lane >= x.num_lanes THEN p2p_lane
    ELSE LET rsc_index == x.lane_descs[lane].rsc_index
             addr_index == x.lane_descs[lane].addr_index
         IN  IF /\ ucp_wireup_check_flags(c.tl_rscs[rsc_index].cap_flags,
                                          criteria.local_iface_flags)
                /\ ucp_wireup_check_flags(c.address_list[addr_index].cap_flags,
                                          criteria.remote_iface_flags)
             THEN lane
             ELSE WireupMsgLaneLoop(c, x, criteria, lane + 1,
                      IF ucp_worker_is_tl_p2p(c, rsc_index) THEN lane
                      ELSE p2p_lane)

\* a selector that never elects a wireup lane
ucp_wireup_select_wireup_msg_lane_None(c, x) == UCP_NULL_LANE

ucp_wireup_select_wireup_msg_lane(c, x) ==
    WireupMsgLaneLoop(c, x, ucp_wireup_fill_aux_criteria(c.params), 0,
                      UCP_NULL_LANE)

\* the memory domain whose bit the loop sets for a lane
LaneMdIndex(c, x, lane) ==
    c.tl_rscs[x.lane_descs[lane].rsc_index].md_index

\* a remote key packed for every lane
PackRkey_Always(c, rsc_index, md_index) == TRUE

\* the remote key of the memory domain is packed only if RMA needs it, and
\* never for a ugni transport
PackRkey(c, rsc_index, md_index) ==
    /\ "NEED_RKEY" \in c.tl_mds[md_index].flags
    /\ c.tl_rscs[rsc_index].tl_name # "ugni"

\* a loop that does not look at the number of bits in the map
MdMapHasRoom_Always(md_map) == TRUE

\* the loop goes on while the map holds fewer bits than the budget
MdMapHasRoom(md_map) == Cardinality(md_map) < UCP_MAX_OP_MDS

\* the loop that fills key->rma_bw_md_map; rma_bw_lanes is the sorted array
\* as a sequence (slot i of the array is rma_bw_lanes[i + 1]).  The loop
\* condition reads slot i before anything bounds i: oob is TRUE when it
\* reads slot UCP_MAX_LANES, behind the array.
RECURSIVE RmaBwMdMapLoop(_, _, _, _, _)
RmaBwMdMapLoop(c, x, rma_bw_lanes, i, md_map) ==
    IF i >= UCP_MAX_LANES THEN [md_map |-> md_map, oob |-> TRUE]
    ELSE IF \/ rma_bw_lanes[i + 1] = UCP_NULL_LANE
            \/ ~MdMapHasRoom(md_map)
    THEN [md_map |-> md_map, oob |-> FALSE]
    ELSE LET lane == rma_bw_lanes[i + 1]
             rsc_index == x.lane_descs[lane].rsc_index
             md_index == LaneMdIndex(c, x, lane)
         IN  RmaBwMdMapLoop(c, x, rma_bw_lanes, i + 1,
                 IF PackRkey(c, rsc_index, md_index)
                 THEN md_map \cup {md_index} ELSE md_map)

\* the caller's configuration key before the call (ucp_ep_config_key_reset)
NoLanes == [i \in 0..(UCP_MAX_LANES - 1) |-> UCP_NULL_LANE]

KeyReset(err_mode) ==
    [num_lanes |-> 0, lanes |-> <<>>, am_lane |-> UCP_NULL_LANE,
     tag_lane |-> UCP_NULL_LANE, am_bw_lanes |-> NoLanes,
     rma_lanes |-> NoLanes, rma_bw_lanes |-> NoLanes, amo_lanes |-> NoLanes,
     wireup_lane |-> UCP_NULL_LANE, rma_bw_md_map |-> {},
     err_mode |-> err_mode, oob |-> FALSE]

ToArray(s) == [i \in 0..(Len(s) - 1) |-> s[i + 1]]

\* key.oob records that the call read behind rma_bw_lanes
ucp_wireup_construct_lanes(c, x, old) ==
    LET am_lane == DesignatedLane(x, old.am_lane, "AM")
        am_bw   == AmBwArray(x, old.am_bw_lanes)
        rma_bw  == RoleArray(x, old.rma_bw_lanes, "RMA_BW", "rma_bw")
        walk    == RmaBwMdMapLoop(c, x, rma_bw, 0, old.rma_bw_md_map)
    IN  [num_lanes |-> x.num_lanes,
         lanes |-> [lane \in 0..(x.num_lanes - 1) |->
                       [rsc_index |-> x.lane_descs[lane].rsc_index,
                        proxy_lane |-> x.lane_descs[lane].proxy_lane,
                        dst_md_index |-> x.lane_descs[lane].dst_md_index]],
         am_lane |-> am_lane,
         tag_lane |-> DesignatedLane(x, old.tag_lane, "TAG"),
         am_bw_lanes |-> [ToArray(am_bw) EXCEPT ![0] = am_lane],
         rma_lanes |-> ToArray(RoleArray(x, old.rma_lanes, "RMA", "rma")),
         rma_bw_lanes |-> ToArray(rma_bw),
         amo_lanes |-> ToArray(RoleArray(x, old.amo_lanes, "AMO", "amo")),
         wireup_lane |-> ucp_wireup_select_wireup_msg_lane(c, x),
         rma_bw_md_map |-> walk.md_map,
         err_mode |-> old.err_mode,
         oob |-> walk.oob]

AddrIndices(x) ==
    [lane \in 0..(x.num_lanes - 1) |-> x.lane_descs[lane].addr_index]

(***************************************************************************)
(* The inputs of a call.  A shape is a compact description of one call:    *)
(* rail i is local resource i of transport types[i] on device i, mirrored  *)
(* by remote address entry i.                                              *)
(***************************************************************************)
FeatureSets ==
    {{}, {"TAG"}, {"RMA"}, {"AMO64"}, {"STREAM"}, {"TAG", "RMA"},
     {"TAG", "WAKEUP"}, {"RMA", "AMO64", "TAG"}, {"RMA", "TAG", "WAKEUP"}}

\* values the uninitialised select_ctx->am_info.score can hold
GarbageScores == {0, 1000}

DefaultShape ==
    [types |-> <<"rc">>, md_share |-> FALSE, remote_md_shift |-> 0,
     mt1 |-> "none", features |-> {"TAG"}, rndv |-> MaxRndvLanes,
     eager |-> MaxEagerLanes, perr |-> "UNSET", kerr |-> "NONE",
     flags |-> {}, sockaddr |-> FALSE, no_addr |-> FALSE, aux |-> FALSE]

\* every combination of at most MaxRsc transports, every feature set
TypedShapes ==
    {[DefaultShape EXCEPT !.types = t, !.features = f] :
        t \in UNION {[1..n -> TlTypes] : n \in 1..MaxRsc},
        f \in FeatureSets}

\* at most two transports, with the endpoint options
OptionShapes ==
    {[DefaultShape EXCEPT !.types = t, !.features = f, !.perr = pe,
                          !.kerr = ke, !.flags = fl, !.remote_md_shift = 1] :
        t \in UNION {[1..n -> TlTypes \ {"ugni"}] : n \in 1..2},
        f \in FeatureSets \ {{"AMO64"}, {"TAG", "RMA"}},
        pe \in {"UNSET", "PEER"}, ke \in {"NONE", "PEER"},
        fl \in {{}, {"MEM_TYPE"}, {"CREATE_AM_LANE"}}}

\* connection by socket address, and a peer that packed no address entry
SpecialShapes ==
    {[DefaultShape EXCEPT !.types = t, !.features = f, !.sockaddr = sa,
                          !.no_addr = na] :
        t \in UNION {[1..n -> {"self", "shm", "rc"}] : n \in 1..2},
        f \in {{}, {"TAG"}, {"RMA"}},
        sa \in BOOLEAN, na \in BOOLEAN}

\* many rails: the lower half of transport t, the upper half of transport t2
WideShapes ==
    {[DefaultShape EXCEPT !.types = [i \in 1..n |->
                                        IF 2 * (i - 1) >= n THEN t2 ELSE t],
                          !.md_share = sh, !.remote_md_shift = 1, !.mt1 = m,
                          !.rndv = r, !.eager = e] :
        n \in 4..MaxRails, t \in {"rc", "dc"}, t2 \in {"rc", "dc"},
        sh \in BOOLEAN, m \in {"none", "half", "last", "all"},
        r \in 1..MaxRndvLanes, e \in {1, MaxEagerLanes}}

\* a peer that packed no address entry, with every endpoint option
EmptyShapes ==
    {[DefaultShape EXCEPT !.types = t, !.features = f, !.perr = pe,
                          !.kerr = ke, !.flags = fl, !.sockaddr = sa,
                          !.no_addr = TRUE] :
        t \in {<<"self">>, <<"rc">>, <<"shm", "ud">>},
        f \in FeatureSets,
        pe \in {"UNSET", "PEER"}, ke \in {"NONE", "PEER"},
        fl \in {{}, {"MEM_TYPE"}, {"CREATE_AM_LANE"}},
        sa \in BOOLEAN}

\* two rails of one transport on two devices, with up to UCP_MAX_OP_MDS
\* rendezvous lanes and two eager lanes
TwoRailShapes ==
    {[DefaultShape EXCEPT !.types = <<t, t>>, !.md_share = sh,
                          !.rndv = r, !.eager = e] :
        t \in TlTypes, sh \in BOOLEAN,
        r \in {2, UCP_MAX_OP_MDS}, e \in {2, MaxEagerLanes}}

\* the last resource is there for the auxiliary selection only
AuxShapes ==
    {[DefaultShape EXCEPT !.types = t, !.features = f, !.aux = TRUE] :
        t \in UNION {[1..n -> {"shm", "rc", "ud"}] : n \in 1..2},
        f \in {{"TAG"}, {"RMA"}, {"AMO64"}}}

\* a shared-memory transport whose memory domain registers memory ("mm"
\* over an xpmem-like domain) next to a network transport, with the endpoint
\* options
RegShmShapes ==
    {[DefaultShape EXCEPT !.types = t, !.features = f, !.perr = pe,
                          !.flags = fl] :
        t \in {<<"mm">>, <<"mm", "rc">>, <<"rc", "mm">>, <<"mm", "dc">>},
        f \in {{}, {"TAG"}, {"RMA"}},
        pe \in {"UNSET", "PEER"},
        fl \in {{}, {"MEM_TYPE"}}}

Shapes ==
    TypedShapes \cup OptionShapes \cup SpecialShapes \cup WideShapes
        \cup EmptyShapes \cup TwoRailShapes \cup AuxShapes
        \cup RegShmShapes

\* memory domain of rail i (0-based)
ShapeMd(s, i) == IF s.md_share THEN i \div 2 ELSE i

MkCall(s) ==
    LET n   == Len(s.types)
        mds == {ShapeMd(s, i) : i \in 0..(n - 1)}
        mt1 == CASE s.mt1 = "none" -> {}
                 [] s.mt1 = "half" -> {i \in 0..(n - 1) : 2 * i >= n}
                 [] s.mt1 = "last" -> {n - 1}
                 [] OTHER          -> 0..(n - 1)
    IN  [tl_rscs |-> [i \in 0..(n - 1) |->
                         [LocalRsc(s.types[i + 1], ShapeMd(s, i), i)
                          EXCEPT !.rsc_flags =
                              IF s.aux /\ i = n - 1 THEN {"AUX"} ELSE @]],
         tl_mds |-> [m \in mds |->
                        MdAttr(s.types[1 + CHOOSE i \in 0..(n - 1) :
                                               ShapeMd(s, i) = m])],
         tl_bitmap |-> 0..(n - 1),
         num_tls |-> n,
         address_list |->
             IF s.no_addr THEN <<>>
             ELSE [i \in 0..(n - 1) |->
                      RemoteEntry(s.types[i + 1],
                                  ShapeMd(s, i) + s.remote_md_shift, i)],
         address_count |-> IF s.no_addr THEN 0 ELSE n,
         features |-> s.features,
         params |-> [field_mask |->
                        (IF s.perr = "UNSET" THEN {} ELSE {"ERR_HANDLING_MODE"})
                        \cup (IF s.sockaddr THEN {"SOCK_ADDR"} ELSE {}),
                     err_mode |-> IF s.perr = "UNSET" THEN "NONE" ELSE s.perr],
         ep_init_flags |-> s.flags,
         key_err_mode |-> s.kerr,
         max_rndv_lanes |-> s.rndv,
         max_eager_lanes |-> s.eager,
         est_num_eps |-> 1,
         mem_type_access_tls |->
             [mem_type \in 0..(UCS_MEMORY_TYPE_LAST - 1) |->
                 IF mem_type = 0
                 THEN (IF s.mt1 \in {"none", "all"} THEN 0..(n - 1)
                       ELSE (0..(n - 1)) \ mt1)
                 ELSE mt1],
         atomic_tls |-> {i \in 0..(n - 1) :
                            TlAttr(s.types[i + 1]).atomic # NoAtomic}]

(***************************************************************************)
(* The state machine of ucp_wireup_select_lanes.                           *)
(***************************************************************************)
VARIABLES
    call,         \* the inputs of the call (the record c above)
    select_ctx,   \* ucp_wireup_select_ctx_t
    key,          \* the caller's ucp_ep_config_key_t
    addr_indices, \* the caller's addr_indices array (the written prefix)
    pc,           \* the pass that runs next
    ret,          \* "" while the call runs, then what the call did
    prev,         \* the result of the call before a resource was removed
    sock,         \* the context's sockaddr transports and what they reach
    rsc_index_p,  \* the cell ucp_wireup_select_sockaddr_transport writes
    sock_ret      \* "" before ucp_wireup_select_sockaddr_transport returns

vars == <<call, select_ctx, key, addr_indices, pc, ret, prev, sock,
          rsc_index_p, sock_ret>>

sockvars == <<sock, rsc_index_p, sock_ret>>

\* a context with no sockaddr transport
NoSockaddrTls ==
    [num_sockaddr_tls |-> 0, sockaddr_tl_ids |-> <<>>, accessible |-> {}]

NoPrev == [valid |-> FALSE]

Init ==
    /\ \E s \in Shapes : call = MkCall(s)
    /\ select_ctx = ucp_wireup_select_ctx_init(call)
    /\ key = KeyReset(call.key_err_mode)
    /\ addr_indices = <<>>
    /\ pc = "rma"
    /\ ret = ""
    /\ prev = NoPrev
    /\ sock = NoSockaddrTls
    /\ rsc_index_p = 0
    /\ sock_ret = ""

\* a search that goes on to the next pass whatever the last one returned
PcAfter_Continue(x, next_pc) == next_pc

\* what the call does after a pass left the context x: the next pass, the
\* return of the pass' error status, the abort of an assertion, or the
\* undefined behaviour of a write behind lane_descs
PcAfter(x, next_pc) ==
    IF x.fault # "" \/ x.status # "OK" THEN "done" ELSE next_pc

RetAfter(x) ==
    IF x.fault = "lane_descs_overflow" THEN "UB"
    ELSE IF x.fault # "" THEN "ABORT"
    ELSE IF x.status # "OK" THEN x.status
    ELSE ""

AddRmaLanes ==
    /\ pc = "rma"
    /\ select_ctx' = ucp_wireup_add_rma_lanes(call, select_ctx)
    /\ pc' = PcAfter(select_ctx', "amo")
    /\ ret' = RetAfter(select_ctx')
    /\ UNCHANGED <<call, key, addr_indices, prev, sockvars>>

AddAmoLanes ==
    /\ pc = "amo"
    /\ select_ctx' = ucp_wireup_add_amo_lanes(call, select_ctx)
    /\ pc' = PcAfter(select_ctx', "am")
    /\ ret' = RetAfter(select_ctx')
    /\ UNCHANGED <<call, key, addr_indices, prev, sockvars>>

AddAmLane ==
    /\ pc = "am"
    /\ select_ctx' = ucp_wireup_add_am_lane(call, select_ctx)
    /\ pc' = PcAfter(select_ctx', "rma_bw")
    /\ ret' = RetAfter(select_ctx')
    /\ UNCHANGED <<call, key, addr_indices, prev, sockvars>>

AddRmaBwLanes ==
    /\ pc = "rma_bw"
    /\ select_ctx' = ucp_wireup_add_rma_bw_lanes(call, select_ctx)
    /\ pc' = PcAfter(select_ctx', "tag")
    /\ ret' = RetAfter(select_ctx')
    /\ UNCHANGED <<call, key, addr_indices, prev, sockvars>>

\* the pass reads select_ctx->am_info.score, which nothing has written when
\* the AM pass returned before its selection
AddTagLane ==
    /\ pc = "tag"
    /\ \E am_score \in (IF select_ctx.am_info_valid
                        THEN {select_ctx.am_info.score} ELSE GarbageScores) :
           select_ctx' = ucp_wireup_add_tag_lane(call, select_ctx, key.err_mode,
                                                 am_score)
    /\ pc' = PcAfter(select_ctx', "am_bw")
    /\ ret' = RetAfter(select_ctx')
    /\ UNCHANGED <<call, key, addr_indices, prev, sockvars>>

\* a search that returns OK whatever the number of lanes
SearchLanesStatus_Ok(x) == "OK"

\* the status ucp_wireup_search_lanes returns after the last pass returned
\* OK: no lane in the table is an error
SearchLanesStatus(x) == IF x.num_lanes = 0 THEN "UNREACHABLE" ELSE "OK"

\* the last pass and the check of ucp_wireup_search_lanes that follows it
AddAmBwLanes ==
    /\ pc = "am_bw"
    /\ LET x == ucp_wireup_add_am_bw_lanes(call, select_ctx)
       IN  select_ctx' = IF x.fault = "" /\ x.status = "OK"
                         THEN [x EXCEPT !.status = SearchLanesStatus(x)] ELSE x
    /\ pc' = PcAfter(select_ctx', "construct")
    /\ ret' = RetAfter(select_ctx')
    /\ UNCHANGED <<call, key, addr_indices, prev, sockvars>>

\* a read behind rma_bw_lanes yields whatever the memory holds: the call
\* goes on as if it read UCP_NULL_LANE, or its behaviour is undefined
ConstructLanes ==
    /\ pc = "construct"
    /\ key' = ucp_wireup_construct_lanes(call, select_ctx, key)
    /\ addr_indices' = AddrIndices(select_ctx)
    /\ pc' = "done"
    /\ \E outcome \in (IF key'.oob THEN {"OK", "UB"} ELSE {"OK"}) : ret' = outcome
    /\ UNCHANGED <<call, select_ctx, prev, sockvars>>

\* the local resources of the lanes of the key
SelectedRscs(k) == {k.lanes[lane].rsc_index : lane \in 0..(k.num_lanes - 1)}

\* the caller runs the selector again with one resource that no lane uses
\* taken out of the context's bitmap of resources
SelectAgainWithout ==
    /\ pc = "done"
    /\ ret = "OK"
    /\ ~prev.valid
    /\ \E rsc_index \in call.tl_bitmap \ SelectedRscs(key) :
           call' = [call EXCEPT !.tl_bitmap = @ \ {rsc_index}]
    /\ prev' = [valid |-> TRUE, key |-> key, addr_indices |-> addr_indices,
                am_info_valid |-> select_ctx.am_info_valid]
    /\ select_ctx' = ucp_wireup_select_ctx_init(call')
    /\ key' = KeyReset(call.key_err_mode)
    /\ addr_indices' = <<>>
    /\ pc' = "rma"
    /\ ret' = ""
    /\ UNCHANGED sockvars

Next ==
    \/ AddRmaLanes
    \/ AddAmoLanes
    \/ AddAmLane
    \/ AddRmaBwLanes
    \/ AddTagLane
    \/ AddAmBwLanes
    \/ ConstructLanes
    \/ SelectAgainWithout

Spec == Init /\ [][Next]_vars

(***************************************************************************)
(* ucp_wireup_select_sockaddr_transport.  The context's configuration      *)
(* lists the sockaddr transports in priority order (sockaddr_tl_ids, only  *)
(* resources whose memory domain has the SOCKADDR flag); sock.accessible   *)
(* is the set of memory domains that report the remote socket address      *)
(* accessible.                                                             *)
(***************************************************************************)
\* the loop over the sockaddr transports priority array, i counts from 0
RECURSIVE SockaddrTlLoop(_, _, _)
SockaddrTlLoop(c, s, i) ==
    IF ~(i < s.num_sockaddr_tls)
    THEN [status |-> "UNREACHABLE", written |-> FALSE, rsc_index |-> 0]
    ELSE LET tl_id == s.sockaddr_tl_ids[i + 1]
             md_index == c.tl_rscs[tl_id].md_index
         IN  IF md_index \in s.accessible
             THEN [status |-> "OK", written |-> TRUE, rsc_index |-> tl_id]
             ELSE SockaddrTlLoop(c, s, i + 1)

\* a selector that takes the accessible transport of the lowest resource
\* index, whatever its place in the priority array
ucp_wireup_select_sockaddr_transport_Lowest(c, s) ==
    LET ok == {i \in 1..s.num_sockaddr_tls :
                  c.tl_rscs[s.sockaddr_tl_ids[i]].md_index \in s.accessible}
        ids == {s.sockaddr_tl_ids[i] : i \in ok}
    IN  IF ok = {}
        THEN [status |-> "UNREACHABLE", written |-> FALSE, rsc_index |-> 0]
        ELSE [status |-> "OK", written |-> TRUE,
              rsc_index |-> CHOOSE r \in ids : \A q \in ids : r <= q]

\* written says whether the call stored rsc_index through rsc_index_p
ucp_wireup_select_sockaddr_transport(c, s) == SockaddrTlLoop(c, s, 0)

\* the priority arrays over n resources: no resource twice
SockaddrTlIds(n) ==
    {ids \in UNION {[1..k -> 0..(n - 1)] : k \in 0..n} :
        \A i, j \in DOMAIN ids : i # j => ids[i] # ids[j]}

\* client-side sockaddr endpoints: at most MaxRsc resources, with and
\* without remote address entries
SockaddrShapes ==
    {[DefaultShape EXCEPT !.types = [i \in 1..n |-> "rc"], !.md_share = sh,
                          !.sockaddr = TRUE, !.no_addr = na] :
        n \in 1..MaxRsc, sh \in BOOLEAN, na \in BOOLEAN}

\* what the caller's resource-index variable holds before the call
PreCallRscIndex == {0, MaxRsc}

SockaddrInit ==
    /\ \E s \in SockaddrShapes : call = MkCall(s)
    /\ select_ctx = ucp_wireup_select_ctx_init(call)
    /\ key = KeyReset(call.key_err_mode)
    /\ addr_indices = <<>>
    /\ pc = "rma"
    /\ ret = ""
    /\ prev = NoPrev
    /\ \E ids \in SockaddrTlIds(call.num_tls) :
       \E acc \in SUBSET (DOMAIN call.tl_mds) :
           sock = [num_sockaddr_tls |-> Len(ids), sockaddr_tl_ids |-> ids,
                   accessible |-> acc]
    /\ rsc_index_p \in PreCallRscIndex
    /\ sock_ret = ""

SelectSockaddrTransport ==
    /\ sock_ret = ""
    /\ LET r == ucp_wireup_select_sockaddr_transport(call, sock)
       IN  /\ sock_ret' = r.status
           /\ rsc_index_p' = IF r.written THEN r.rsc_index ELSE rsc_index_p
    /\ UNCHANGED <<call, select_ctx, key, addr_indices, pc, ret, prev, sock>>

SockaddrNext == SelectSockaddrTransport

SockaddrSpec == SockaddrInit /\ [][SockaddrNext]_vars

(***************************************************************************)
(* Properties.                                                             *)
(***************************************************************************)
\* the call returned UCS_OK
Returned == pc = "done" /\ ret = "OK"

\* the lanes of the lane table
TableLanes == 0..(select_ctx.num_lanes - 1)

LanePair(lane) ==
    <<select_ctx.lane_descs[lane].rsc_index,
      select_ctx.lane_descs[lane].addr_index>>

IsProxyLane(lane) == select_ctx.lane_descs[lane].proxy_lane # UCP_NULL_LANE

LanesWith(role) ==
    {lane \in TableLanes : role \in select_ctx.lane_descs[lane].usage}

\* C1: the lane table never receives more lanes than its capacity
\* UCP_MAX_LANES, and when the call returns OK the lane count of the key is
\* at most UCP_MAX_LANES and every lane has at least one usage bit.
C1_LaneCountWithinCapacity ==
    /\ select_ctx.num_lanes <= UCP_MAX_LANES
    /\ Returned =>
           /\ key.num_lanes <= UCP_MAX_LANES
           /\ \A lane \in TableLanes : select_ctx.lane_descs[lane].usage # {}

\* a pass appended a lane to a table that already held UCP_MAX_LANES lanes
C1_TableOverflow ==
    /\ select_ctx.fault = "lane_descs_overflow"
    /\ select_ctx.num_lanes > UCP_MAX_LANES

C3_ProxyTarget ==
    select_ctx.fault = "" =>
        \A lane \in TableLanes :
            LET proxy_lane == select_ctx.lane_descs[lane].proxy_lane IN
            /\ (IsProxyLane(lane) /\ proxy_lane # lane) =>
                   /\ proxy_lane \in TableLanes
                   /\ ~IsProxyLane(proxy_lane)
                   /\ LanePair(proxy_lane) = LanePair(lane)
            /\ proxy_lane = lane =>
                   \A other \in TableLanes :
                       LanePair(other) = LanePair(lane) => IsProxyLane(other)

\* lane 0 was added as a self-proxy, and a later non-proxy addition
\* re-pointed it; another proxy lane is its own proxy
C3_Repointed ==
    /\ select_ctx.fault = ""
    /\ select_ctx.num_lanes > 1
    /\ select_ctx.lane_descs[0].proxy_lane \in TableLanes \ {0}
    /\ \E lane \in TableLanes : select_ctx.lane_descs[lane].proxy_lane = lane

\* C4: on an OK return at most one lane carries the AM usage bit and at most
\* one the TAG usage bit; am_lane is NONE when no lane carries AM and else
\* the index of that lane, and likewise tag_lane for TAG.
C4_SingleAmAndTag ==
    Returned =>
        /\ Cardinality(LanesWith("AM")) <= 1
        /\ Cardinality(LanesWith("TAG")) <= 1
        /\ IF LanesWith("AM") = {} THEN key.am_lane = UCP_NULL_LANE
           ELSE key.am_lane \in LanesWith("AM")
        /\ IF LanesWith("TAG") = {} THEN key.tag_lane = UCP_NULL_LANE
           ELSE key.tag_lane \in LanesWith("TAG")

\* an OK return with an AM lane and a TAG lane that are different lanes
C4_AmAndTagLanes ==
    /\ Returned
    /\ key.am_lane # UCP_NULL_LANE
    /\ key.tag_lane # UCP_NULL_LANE
    /\ key.am_lane # key.tag_lane

\* the score of an entry of a role array, as the comparator of the sort
\* sees it
EntryScore(lane, token) ==
    IF lane = UCP_NULL_LANE THEN 0
    ELSE LaneScore(select_ctx.lane_descs[lane], token)

AmBwSlots == 1..(UCP_MAX_LANES - 1)

RoleSlots == 0..(UCP_MAX_LANES - 1)

\* lanes before NONE entries, scores decreasing, equal scores in ascending
\* lane order
RoleArraySorted(arr, token) ==
    \A i, j \in RoleSlots :
        i < j =>
            /\ arr[i] = UCP_NULL_LANE => arr[j] = UCP_NULL_LANE
            /\ (arr[i] # UCP_NULL_LANE /\ arr[j] # UCP_NULL_LANE) =>
                   /\ EntryScore(arr[i], token) >= EntryScore(arr[j], token)
                   /\ EntryScore(arr[i], token) = EntryScore(arr[j], token) =>
                          arr[i] < arr[j]

\* C6: on an OK return, in each of rma_lanes, rma_bw_lanes and amo_lanes
\* every lane precedes every NONE entry (also a lane of role score 0), and
\* the lanes are ordered by decreasing role score, lanes of equal score in
\* ascending lane order.
C6_RoleArraysSorted ==
    Returned =>
        /\ RoleArraySorted(key.rma_lanes, "rma")
        /\ RoleArraySorted(key.rma_bw_lanes, "rma_bw")
        /\ RoleArraySorted(key.amo_lanes, "amo")

\* an OK return whose rma_bw_lanes has a NONE entry before a lane
C6_NoneBeforeLane ==
    /\ Returned
    /\ \E i, j \in RoleSlots :
           /\ i < j
           /\ key.rma_bw_lanes[i] = UCP_NULL_LANE
           /\ key.rma_bw_lanes[j] # UCP_NULL_LANE

\* the lanes listed in rma_bw_lanes
RmaBwListed ==
    {key.rma_bw_lanes[i] : i \in RoleSlots} \ {UCP_NULL_LANE}

\* the local memory domain of the lane's resource
LaneLocalMd(lane) ==
    call.tl_rscs[select_ctx.lane_descs[lane].rsc_index].md_index

\* the lane's memory domain needs a remote key
LaneNeedsRkey(lane) == "NEED_RKEY" \in call.tl_mds[LaneLocalMd(lane)].flags

\* C7: on an OK return rma_bw_md_map has at most UCP_MAX_OP_MDS bits set.
C7_MdMapWithinBudget ==
    Returned => Cardinality(key.rma_bw_md_map) <= UCP_MAX_OP_MDS

\* an OK return where the lanes of rma_bw_lanes are on more memory domains
\* that need a remote key than the map may hold, and the map is full
C7_MdMapFull ==
    /\ Returned
    /\ Cardinality(key.rma_bw_md_map) = UCP_MAX_OP_MDS
    /\ Cardinality({LaneLocalMd(lane) :
                       lane \in {l \in RmaBwListed : LaneNeedsRkey(l)}})
           > UCP_MAX_OP_MDS

\* C8: on an OK return the lanes listed in rma_bw_lanes whose memory domain
\* needs a remote key are on at most UCP_MAX_OP_MDS distinct remote memory
\* domains.
C8_RkeyMdsWithinBudget ==
    Returned =>
        Cardinality({select_ctx.lane_descs[lane].dst_md_index :
                        lane \in {l \in RmaBwListed : LaneNeedsRkey(l)}})
            <= UCP_MAX_OP_MDS

LanePacksRkey(lane) ==
    /\ LaneNeedsRkey(lane)
    /\ call.tl_rscs[select_ctx.lane_descs[lane].rsc_index].tl_name # "ugni"

C10_RemovalKeepsKey ==
    (pc = "done" /\ prev.valid /\ prev.am_info_valid
                 /\ select_ctx.am_info_valid) =>
        /\ ret = "OK"
        /\ key = prev.key

\* the (local resource, remote entry) pairs the AM selection chooses from:
\* the resource and the entry pass the flag checks of the AM criteria and
\* the entry is reachable from the resource
AmCandidates ==
    {pair \in (0..(call.num_tls - 1)) \X (0..(call.address_count - 1)) :
        /\ LocalEligible(call, AmCriteria(call), ALL_BITS, ALL_BITS, pair[1])
        /\ pair[2] \in addr_index_map(call, AmCriteria(call), ALL_BITS, ALL_BITS)
        /\ ucp_wireup_is_reachable(call, pair[1], call.address_list[pair[2]])}

\* AM score and priority sum of a pair
PairScore(pair) ==
    calc_score(AmCriteria(call), call,
               call.tl_mds[call.tl_rscs[pair[1]].md_index],
               call.tl_rscs[pair[1]], call.address_list[pair[2]])

PairPriority(pair) ==
    call.tl_rscs[pair[1]].priority + call.address_list[pair[2]].priority

\* the pair the AM pass selected
AmSelected ==
    /\ select_ctx.am_info_valid
    /\ select_ctx.am_info.status = "OK"

AmPair == <<select_ctx.am_info.rsc_index, select_ctx.am_info.addr_index>>

\* C11: the pair selected for the AM lane maximizes the AM score over all
\* candidate pairs: no candidate has a score above it by more than the
\* relative epsilon, among the candidates within epsilon of it none has a
\* higher priority sum, and among those with its priority sum none comes
\* before it in iteration order.
C11_AmPairDominates ==
    AmSelected =>
        \A pair \in AmCandidates :
            LET cmp == ucp_wireup_score_cmp(PairScore(pair), PairScore(AmPair))
            IN  /\ cmp <= 0
                /\ cmp = 0 => PairPriority(pair) <= PairPriority(AmPair)
                /\ (cmp = 0 /\ PairPriority(pair) = PairPriority(AmPair)) =>
                       \/ AmPair[1] < pair[1]
                       \/ AmPair[1] = pair[1] /\ AmPair[2] <= pair[2]

\* the AM pass selected a pair while another candidate has a score above
\* it by more than epsilon
C11_BetterCandidateLost ==
    /\ AmSelected
    /\ \E pair \in AmCandidates :
           ucp_wireup_score_cmp(PairScore(pair), PairScore(AmPair)) > 0

\* the call ended by a return statement: no assertion aborted it and no
\* access behind an array made its behaviour undefined
ReturnedStatus == pc = "done" /\ ret \notin {"UB", "ABORT"}

\* C12: a status that ucp_wireup_select_lanes returns is OK or UNREACHABLE;
\* it returns OK only if the lane table holds at least one lane, and when
\* the remote address list is empty the call returns, and returns
\* UNREACHABLE.
C12_OkOrUnreachable ==
    /\ ReturnedStatus => ret \in {"OK", "UNREACHABLE"}
    /\ (pc = "done" /\ ret = "OK") => select_ctx.num_lanes >= 1
    /\ (pc = "done" /\ call.address_count = 0) => ret = "UNREACHABLE"

\* a call with an empty address list, no feature and error mode PEER went
\* through every pass and returned UNREACHABLE at the final check of the
\* lane count
C12_EmptyListAllPasses ==
    /\ pc = "done"
    /\ ret = "UNREACHABLE"
    /\ call.address_count = 0
    /\ call.features = {}
    /\ call.params.err_mode = "PEER"
    /\ select_ctx.num_lanes = 0
    /\ ~select_ctx.am_info_valid

\* the steps from one pass to the next, in the order of the passes
PassOrder ==
    {<<"rma", "amo">>, <<"amo", "am">>, <<"am", "rma_bw">>,
     <<"rma_bw", "tag">>, <<"tag", "am_bw">>, <<"am_bw", "construct">>,
     <<"construct", "done">>}

\* the AM pass ran its selection and no pair satisfied the AM criteria
AmSelectionFailed ==
    /\ select_ctx.am_info_valid
    /\ select_ctx.am_info.status # "OK"

\* C13: the passes run in the order RMA, AMO, AM, RMA-BW, TAG, AM-BW (a
\* pass is followed by the next one or by the return of the call); when an
\* AM lane is required and no pair satisfies the AM criteria the call
\* returns UNREACHABLE at once: no lane of the table has an RMA-BW, TAG or
\* AM-BW usage, and the configuration key and the address-index array are
\* as the caller passed them.
C13_AmFailureIsFatal ==
    /\ [][pc' # pc => \/ <<pc, pc'>> \in PassOrder
                      \/ pc' = "done"
                      \/ pc = "done" /\ pc' = "rma"]_vars
    /\ [](AmSelectionFailed =>
              /\ pc = "done"
              /\ ret = "UNREACHABLE"
              /\ \A lane \in TableLanes :
                     select_ctx.lane_descs[lane].usage \cap
                         {"RMA_BW", "TAG", "AM_BW"} = {}
              /\ key = KeyReset(call.key_err_mode)
              /\ addr_indices = <<>>)

\* the AM selection failed after the RMA pass had added a lane
C13_AmFailedAfterRmaLane ==
    /\ AmSelectionFailed
    /\ pc = "done"
    /\ select_ctx.num_lanes >= 1

\* feature TAG is requested and no local resource and no remote entry
\* advertises the tag interface flags
TagWithoutTagTransport ==
    /\ "TAG" \in call.features
    /\ call.address_count > 0
    /\ \A rsc_index \in 0..(call.num_tls - 1) :
           call.tl_rscs[rsc_index].cap_flags \cap
               {"TAG_EAGER_BCOPY", "TAG_RNDV_ZCOPY"} = {}
    /\ \A addr_index \in 0..(call.address_count - 1) :
           call.address_list[addr_index].cap_flags \cap
               {"TAG_EAGER_BCOPY", "TAG_RNDV_ZCOPY"} = {}

\* C14 as claimed: when feature TAG is requested and no local or remote
\* transport is TAG-capable, the selector returns INVALID_PARAM.
C14_ReturnsInvalidParam ==
    (pc = "done" /\ TagWithoutTagTransport) => ret = "INVALID_PARAM"

\* C14: when feature TAG is requested and no local or remote transport is
\* TAG-capable, the selector returns OK or UNREACHABLE, never
\* INVALID_PARAM: the TAG pass adds no lane and returns OK, and on an OK
\* return tag_lane is NONE and, unless the endpoint is a memory-type
\* endpoint, an AM lane exists (tags are matched over active messages).
C14_TagOverAm ==
    /\ ret # "INVALID_PARAM"
    /\ TagWithoutTagTransport =>
           /\ LanesWith("TAG") = {}
           /\ pc = "done" => ret \in {"OK", "UNREACHABLE"}
           /\ Returned =>
                  /\ key.tag_lane = UCP_NULL_LANE
                  /\ "MEM_TYPE" \notin call.ep_init_flags =>
                         key.am_lane # UCP_NULL_LANE

\* an OK return for feature TAG without a TAG-capable transport, after the
\* TAG pass ran its selection
C14_OkWithoutTagLane ==
    /\ Returned
    /\ TagWithoutTagTransport
    /\ key.err_mode = "NONE"
    /\ key.am_lane # UCP_NULL_LANE
    /\ key.tag_lane = UCP_NULL_LANE

PutGetFlags ==
    {"PUT_SHORT", "PUT_BCOPY", "PUT_ZCOPY", "GET_SHORT", "GET_BCOPY",
     "GET_ZCOPY"}

\* the call of the AM-emulation scenario: feature RMA only, error mode
\* NONE, not a memory-type endpoint, every local resource advertises
\* AM-bcopy and no PUT / GET, and a pair satisfies the AM criteria
AmEmulationCall ==
    /\ call.features = {"RMA"}
    /\ ~ucp_wireup_ep_params_is_err_mode_peer(call.params)
    /\ call.key_err_mode = "NONE"
    /\ "MEM_TYPE" \notin call.ep_init_flags
    /\ \A rsc_index \in 0..(call.num_tls - 1) :
           /\ "AM_BCOPY" \in call.tl_rscs[rsc_index].cap_flags
           /\ call.tl_rscs[rsc_index].cap_flags \cap PutGetFlags = {}
    /\ AmCandidates # {}

\* C15 as claimed: in the AM-emulation scenario the selector returns OK
\* with no RMA lane and an AM lane, every entry of rma_lanes is NONE, and
\* the CREATE_AM_LANE bit is set in the init-flags of the caller.
C15_BitReturnedToCaller ==
    (pc = "done" /\ AmEmulationCall) =>
        /\ ret = "OK"
        /\ LanesWith("RMA") = {}
        /\ key.am_lane # UCP_NULL_LANE
        /\ key.rma_lanes = NoLanes
        /\ "CREATE_AM_LANE" \in call.ep_init_flags

\* C15: in the AM-emulation scenario the RMA pass places no lane and
\* returns OK, the selector returns OK with an AM lane, every entry of
\* rma_lanes is NONE, and the CREATE_AM_LANE bit is set in the init-flags
\* of the selection context only: the selector takes the init-flags by
\* value and the caller's word is as the caller passed it.
C15_BitInSelectCtx ==
    /\ [](AmEmulationCall =>
              /\ pc # "rma" =>
                     /\ LanesWith("RMA") = {}
                     /\ "CREATE_AM_LANE" \in select_ctx.ep_init_flags
                     /\ pc = "amo" => select_ctx.status = "OK"
              /\ pc = "done" =>
                     /\ ret = "OK"
                     /\ key.am_lane # UCP_NULL_LANE
                     /\ key.rma_lanes = NoLanes)
    /\ [][call.ep_init_flags' = call.ep_init_flags]_vars

\* the AM-emulation scenario returned OK and the caller had not set the
\* CREATE_AM_LANE bit
C15_EmulatedOverAm ==
    /\ Returned
    /\ AmEmulationCall
    /\ "CREATE_AM_LANE" \notin call.ep_init_flags
    /\ "CREATE_AM_LANE" \in select_ctx.ep_init_flags
    /\ key.am_lane # UCP_NULL_LANE

\* the RMA pass and the AMO pass run a selection for this call
RmaPassEnabled ==
    "RMA" \in call.features \/ "MEM_TYPE" \in call.ep_init_flags

AmoPassEnabled ==
    /\ call.features \cap {"AMO32", "AMO64"} # {}
    /\ "MEM_TYPE" \notin call.ep_init_flags

\* the call ended with UNREACHABLE before the AM pass ran its selection
UnreachableBeforeAm ==
    /\ pc = "done"
    /\ ret = "UNREACHABLE"
    /\ ~select_ctx.am_info_valid
    /\ LanesWith("AM") = {}

LoopbackFlags ==
    {"AM_SHORT", "AM_BCOPY", "TAG_EAGER_BCOPY", "TAG_RNDV_ZCOPY", "GET_ZCOPY",
     "PENDING", "CB_SYNC"}

\* the call of the loopback scenario: one self resource that advertises
\* exactly LoopbackFlags on a memory domain that registers memory, the
\* mirror remote entry, features TAG, error mode NONE, no init flag
LoopbackCall ==
    /\ call.num_tls = 1
    /\ call.tl_bitmap = {0}
    /\ call.tl_rscs[0].dev_type = "SELF"
    /\ call.tl_rscs[0].cap_flags = LoopbackFlags
    /\ "REG" \in call.tl_mds[call.tl_rscs[0].md_index].flags
    /\ call.address_count = 1
    /\ call.address_list[0].cap_flags = LoopbackFlags \cap UCP_ADDRESS_IFACE_FLAGS
    /\ call.address_list[0].tl_name_csum = call.tl_rscs[0].tl_name
    /\ call.features = {"TAG"}
    /\ call.params.field_mask = {}
    /\ call.key_err_mode = "NONE"
    /\ call.ep_init_flags = {}

\* the lanes of the loopback scenario but for the wireup lane
LoopbackLanes ==
    /\ ret = "OK"
    /\ key.num_lanes = 1
    /\ key.am_lane = 0
    /\ key.tag_lane = 0
    /\ key.am_bw_lanes = [NoLanes EXCEPT ![0] = 0]
    /\ key.rma_lanes = NoLanes
    /\ key.amo_lanes = NoLanes
    /\ key.rma_bw_lanes = NoLanes

\* C17 as claimed: the loopback call returns OK with 1 lane, am_lane = 0,
\* tag_lane = 0, am_bw_lanes = [0, NONE, ...], no RMA, AMO or RMA-BW lane,
\* and wireup_lane = 0.
C17_LoopbackWireupLaneZero ==
    (pc = "done" /\ LoopbackCall) => (LoopbackLanes /\ key.wireup_lane = 0)

\* C17: the loopback call returns OK with 1 lane, am_lane = 0,
\* tag_lane = 0, am_bw_lanes = [0, NONE, ...], no RMA, AMO or RMA-BW lane,
\* and wireup_lane = NONE: the self resource advertises neither
\* CONNECT-TO-IFACE nor, remotely, the async callback the auxiliary
\* criteria ask for, and it is not a peer-to-peer transport.
C17_LoopbackWireupLaneNone ==
    (pc = "done" /\ LoopbackCall) =>
        (LoopbackLanes /\ key.wireup_lane = UCP_NULL_LANE)

\* the loopback call returned
C17_LoopbackReturned ==
    /\ Returned
    /\ LoopbackCall
    /\ key.tag_lane = 0
    /\ LanesWith("TAG") = {0}

\* the call of the two-rail scenario: two local resources of one transport
\* with the same capabilities and bandwidth on two devices, each with
\* zero-copy GET and PUT on a memory domain that registers memory, the
\* mirror remote entries, features TAG, four rendezvous lanes and two
\* eager lanes
TwoRailCall ==
    /\ call.num_tls = 2
    /\ call.tl_bitmap = {0, 1}
    /\ call.tl_rscs[0].dev_index # call.tl_rscs[1].dev_index
    /\ [call.tl_rscs[0] EXCEPT !.dev_index = 0, !.md_index = 0] =
       [call.tl_rscs[1] EXCEPT !.dev_index = 0, !.md_index = 0]
    /\ {"GET_ZCOPY", "PUT_ZCOPY"} \subseteq call.tl_rscs[0].cap_flags
    /\ \A r \in {0, 1} : "REG" \in call.tl_mds[call.tl_rscs[r].md_index].flags
    /\ call.address_count = 2
    /\ \A r \in {0, 1} :
          /\ call.address_list[r].tl_name_csum = call.tl_rscs[r].tl_name
          /\ call.address_list[r].dev_index = call.tl_rscs[r].dev_index
          /\ call.address_list[r].cap_flags =
                call.tl_rscs[r].cap_flags \cap UCP_ADDRESS_IFACE_FLAGS
    /\ call.features = {"TAG"}
    /\ call.params.field_mask = {}
    /\ call.key_err_mode = "NONE"
    /\ call.ep_init_flags = {}
    /\ call.mem_type_access_tls[1] = {}
    /\ call.max_rndv_lanes = 4
    /\ call.max_eager_lanes = 2

\* the lanes of the two-rail scenario: two lanes, the high-bandwidth roles
\* merged into them, rma_bw_lanes holding both, am_bw_lanes holding the AM
\* lane and then the other lane
TwoRailLanes ==
    /\ ret = "OK"
    /\ key.num_lanes = 2
    /\ {key.rma_bw_lanes[0], key.rma_bw_lanes[1]} = {0, 1}
    /\ \A i \in 2..(UCP_MAX_LANES - 1) : key.rma_bw_lanes[i] = UCP_NULL_LANE
    /\ select_ctx.lane_descs[key.rma_bw_lanes[0]].rma_bw_score >=
       select_ctx.lane_descs[key.rma_bw_lanes[1]].rma_bw_score
    /\ key.am_lane \in {0, 1}
    /\ key.am_bw_lanes[0] = key.am_lane
    /\ key.am_bw_lanes[1] = 1 - key.am_lane

\* C18 as claimed: the two-rail call returns OK with 2 lanes, rma_bw_lanes
\* holds both lane indices in descending score order, am_bw_lanes[0] is the
\* AM lane and am_bw_lanes[1] the other lane.
C18_TwoRailsTwoLanes ==
    (pc = "done" /\ TwoRailCall) => TwoRailLanes

\* C18: when the two rails are of a peer-to-peer transport, the two-rail
\* call returns OK with 2 lanes, rma_bw_lanes holds both lane indices in
\* descending score order, am_bw_lanes[0] is the AM lane and am_bw_lanes[1]
\* the other lane.
C18_TwoP2pRailsTwoLanes ==
    (/\ pc = "done"
     /\ TwoRailCall
     /\ \A r \in {0, 1} : ucp_worker_is_tl_p2p(call, r)) => TwoRailLanes

\* the two-rail call returned with both high-bandwidth roles on lane 1
C18_TwoRailsReturned ==
    /\ Returned
    /\ TwoRailCall
    /\ \A r \in {0, 1} : ucp_worker_is_tl_p2p(call, r)
    /\ key.num_lanes = 2
    /\ select_ctx.lane_descs[1].usage = {"RMA_BW", "AM_BW"}

\* the lanes whose local interface flags and whose remote entry's interface
\* flags satisfy the auxiliary criteria
AuxLanes ==
    {lane \in TableLanes :
        /\ {"CONNECT_TO_IFACE", "AM_BCOPY", "PENDING"} \subseteq
              call.tl_rscs[select_ctx.lane_descs[lane].rsc_index].cap_flags
        /\ {"CONNECT_TO_IFACE", "AM_BCOPY", "CB_ASYNC"} \subseteq
              call.address_list[select_ctx.lane_descs[lane].addr_index].cap_flags}

\* the lanes on a peer-to-peer transport
P2pLanes ==
    {lane \in TableLanes :
        "CONNECT_TO_EP" \in
            call.tl_rscs[select_ctx.lane_descs[lane].rsc_index].cap_flags}

AccessiblePlaces ==
    {i \in 1..sock.num_sockaddr_tls :
        call.tl_rscs[sock.sockaddr_tl_ids[i]].md_index \in sock.accessible}

\* C20: ucp_wireup_select_sockaddr_transport returns OK with the resource
\* index of the first transport of the priority array whose memory domain
\* reports the remote socket address accessible, and UNREACHABLE without
\* writing the output index when there is none; the remote address entries
\* play no part: the result is the same with and without them.
C20_FirstAccessibleSockaddrTl ==
    /\ [](sock_ret # "" =>
             IF AccessiblePlaces = {}
             THEN sock_ret = "UNREACHABLE"
             ELSE /\ sock_ret = "OK"
                  /\ \E i \in AccessiblePlaces :
                        /\ \A j \in AccessiblePlaces : i <= j
                        /\ rsc_index_p = sock.sockaddr_tl_ids[i])
    /\ [][sock_ret' = "UNREACHABLE" => rsc_index_p' = rsc_index_p]_vars

\* the call skipped an inaccessible transport of a higher resource index
\* and returned a later one, with no remote address entry at all
C20_EarlierTlSkipped ==
    /\ sock_ret = "OK"
    /\ 1 \notin AccessiblePlaces
    /\ rsc_index_p < sock.sockaddr_tl_ids[1]
    /\ rsc_index_p \in {sock.sockaddr_tl_ids[i] : i \in AccessiblePlaces}
    /\ call.address_count = 0

\* the calls of the criteria evaluator looked at: the criteria of the AM,
\* TAG and AMO passes and of the auxiliary selection, with every resource
\* or the resources of the second memory type allowed, and with device 0,
\* remote device 0 or the memory domain of remote entry 0 masked off or not
EvaluatorCalls ==
    [criteria : {AmCriteria(call), TagCriteria(call), AmoCriteria(call),
                 ucp_wireup_fill_aux_criteria(call.params)},
     tl_bitmap : {ALL_BITS, call.mem_type_access_tls[1]},
     remote_md_map : {ALL_BITS} \cup
                     {ALL_BITS \ {call.address_list[a].md_index} :
                         a \in {0} \cap (0..(call.address_count - 1))},
     local_dev_bitmap : {ALL_BITS, ALL_BITS \ {0}},
     remote_dev_bitmap : {ALL_BITS, ALL_BITS \ {0}}]

\* the pairs (local resource, remote entry) eligible for the call e
EligiblePairs(e) ==
    {pair \in (0..(call.num_tls - 1)) \X (0..(call.address_count - 1)) :
        LET rsc == call.tl_rscs[pair[1]]
            ae  == call.address_list[pair[2]]
        IN  /\ pair[1] \in call.tl_bitmap
            /\ pair[1] \in e.tl_bitmap
            /\ rsc.dev_index \in e.local_dev_bitmap
            /\ e.criteria.local_md_flags \subseteq call.tl_mds[rsc.md_index].flags
            /\ e.criteria.local_iface_flags \subseteq rsc.cap_flags
            /\ AtomicContains(rsc.atomic, e.criteria.local_atomic_flags)
            /\ ("AUX" \in rsc.rsc_flags => "AUX" \in e.criteria.tl_rsc_flags)
            /\ ae.dev_index \in e.remote_dev_bitmap
            /\ ae.md_index \in e.remote_md_map
            /\ e.criteria.remote_md_flags \subseteq ae.md_flags
            /\ e.criteria.remote_iface_flags \subseteq ae.cap_flags
            /\ AtomicContains(ae.atomic, e.criteria.remote_atomic_flags)
            /\ ucp_wireup_is_reachable(call, pair[1], ae)}

Evaluate(e) ==
    ucp_wireup_select_transport(call, e.criteria, e.tl_bitmap, e.remote_md_map,
                                e.local_dev_bitmap, e.remote_dev_bitmap)

\* C21: the criteria evaluator returns OK exactly when an eligible pair
\* exists, the pair it returns is eligible, and it returns UNREACHABLE
\* otherwise, also when every remote entry is filtered out.
C21_EvaluatorReturnsEligiblePair ==
    pc = "rma" =>
        \A e \in EvaluatorCalls :
            LET select_info == Evaluate(e)
            IN  IF EligiblePairs(e) = {}
                THEN select_info.status = "UNREACHABLE"
                ELSE /\ select_info.status = "OK"
                     /\ <<select_info.rsc_index, select_info.addr_index>>
                            \in EligiblePairs(e)

\* an evaluation that returns a pair on a device other than 0 while a pair
\* on the masked-off device 0 satisfies every other condition
C21_MaskedPairPassedOver ==
    /\ pc = "rma"
    /\ \E e \in EvaluatorCalls :
          /\ e.local_dev_bitmap # ALL_BITS
          /\ Evaluate(e).status = "OK"
          /\ EligiblePairs([e EXCEPT !.local_dev_bitmap = ALL_BITS]) #
             EligiblePairs(e)

LaneRemote(lane) == call.address_list[select_ctx.lane_descs[lane].addr_index]

\* a call of the evaluator with the criteria of the RMA pass, the remote MD
\* flag md_flag, and nothing masked off
RmaCall(md_flag) ==
    [criteria |-> [RmaCriteria(call, call.ep_init_flags)
                   EXCEPT !.remote_md_flags = {md_flag}],
     tl_bitmap |-> ALL_BITS, remote_md_map |-> ALL_BITS,
     local_dev_bitmap |-> ALL_BITS, remote_dev_bitmap |-> ALL_BITS]

\* the call for allocated memory that follows the RMA lanes of the table:
\* the resources on their local MDs and their remote MDs are masked off
RmaCallAfterLanes ==
    [RmaCall("ALLOC") EXCEPT
        !.tl_bitmap = ALL_BITS \
            {r \in 0..(call.num_tls - 1) :
                \E lane \in LanesWith("RMA") :
                    call.tl_rscs[r].md_index = LaneLocalMd(lane)},
        !.remote_md_map = ALL_BITS \
            {select_ctx.lane_descs[lane].dst_md_index :
                lane \in LanesWith("RMA")}]

\* C23: after the RMA pass, the first RMA lane is on a pair eligible with
\* the remote MD flag REG and its score is reg_score; every further RMA
\* lane is on a remote MD with ALLOC and its score beats reg_score beyond
\* the comparison epsilon; the loop stopped at a candidate that does not;
\* and with no pair for REG there is no RMA lane at all.
C23_RmaRegThenAlloc ==
    (pc # "rma" /\ RmaPassEnabled /\ select_ctx.fault = "") =>
        LET rma == LanesWith("RMA")
            reg == EligiblePairs(RmaCall("REG"))
            next == Evaluate(RmaCallAfterLanes)
        IN  IF reg = {} THEN rma = {}
            ELSE /\ rma = 0..(Cardinality(rma) - 1)
                 /\ 0 \in rma
                 /\ <<select_ctx.lane_descs[0].rsc_index,
                      select_ctx.lane_descs[0].addr_index>> \in reg
                 /\ \A lane \in rma \ {0} :
                       /\ "ALLOC" \in LaneRemote(lane).md_flags
                       /\ ucp_wireup_score_cmp(
                              select_ctx.lane_descs[lane].rma_score,
                              select_ctx.lane_descs[0].rma_score) > 0
                 /\ \/ next.status # "OK"
                    \/ ucp_wireup_score_cmp(
                           next.score, select_ctx.lane_descs[0].rma_score) <= 0

\* a second RMA lane on allocated memory, and a candidate for a third that
\* did not beat reg_score
C23_AllocLaneAdded ==
    /\ pc = "amo"
    /\ Cardinality(LanesWith("RMA")) >= 2
    /\ Evaluate(RmaCallAfterLanes).status = "OK"

\* the lane is on a self or shared-memory resource
LaneSelfOrShm(lane) ==
    ucp_wireup_is_rsc_self_or_shm(call, select_ctx.lane_descs[lane].rsc_index)

\* C24 as claimed: no further lane is added for a role once the role's
\* maximum lane count is reached (at most max_rndv_lanes lanes carry RMA-BW
\* and at most max_eager_lanes - 1 carry AM-BW, none when the AM lane is on
\* a self or shared-memory resource) or once the lane just chosen is on a
\* self or shared-memory resource (the RMA lanes are the first lanes of the
\* table, in the order the RMA pass chose them).
C24_RoleLaneLimits ==
    select_ctx.fault = "" =>
        /\ Cardinality(LanesWith("RMA_BW")) <= call.max_rndv_lanes
        /\ Cardinality(LanesWith("AM_BW")) <= Max(call.max_eager_lanes - 1, 0)
        /\ (\E lane \in LanesWith("AM") : LaneSelfOrShm(lane)) =>
               LanesWith("AM_BW") = {}
        /\ \A lane \in LanesWith("RMA") :
               LaneSelfOrShm(lane) => \A later \in LanesWith("RMA") :
                                          later <= lane

\* the local and the remote device of a lane
LaneLocalDev(lane) ==
    call.tl_rscs[select_ctx.lane_descs[lane].rsc_index].dev_index

LaneRemoteDev(lane) == LaneRemote(lane).dev_index

\* the lanes of the set are on pairwise distinct local devices and on
\* pairwise distinct remote devices
DistinctDevices(lanes) ==
    \A l1, l2 \in lanes :
        l1 # l2 => /\ LaneLocalDev(l1) # LaneLocalDev(l2)
                   /\ LaneRemoteDev(l1) # LaneRemoteDev(l2)

\* the lanes of the set are on pairwise distinct remote MDs and on pairwise
\* distinct local MDs
DistinctMds(lanes) ==
    \A l1, l2 \in lanes :
        l1 # l2 => /\ select_ctx.lane_descs[l1].dst_md_index #
                      select_ctx.lane_descs[l2].dst_md_index
                   /\ LaneLocalMd(l1) # LaneLocalMd(l2)

\* the RMA-BW lanes that the run of the bandwidth loop for mem_type added,
\* as far as the table tells: the lanes on a resource that only this memory
\* type allows
RmaBwLanesOfRun(mem_type) ==
    {lane \in LanesWith("RMA_BW") :
        /\ select_ctx.lane_descs[lane].rsc_index \in
               call.mem_type_access_tls[mem_type]
        /\ select_ctx.lane_descs[lane].rsc_index \notin
               call.mem_type_access_tls[1 - mem_type]}

\* C25: the lanes carrying RMA are on pairwise distinct remote MDs and
\* local MDs, and so are the lanes carrying AMO; the lanes one run of the
\* bandwidth loop added are on pairwise distinct local devices and remote
\* devices; no AM-BW lane is on the local or the remote device of the AM
\* lane.
C25_Diversity ==
    select_ctx.fault = "" =>
        /\ DistinctMds(LanesWith("RMA"))
        /\ DistinctMds(LanesWith("AMO"))
        /\ DistinctDevices(LanesWith("AM_BW"))
        /\ \A mem_type \in 0..(UCS_MEMORY_TYPE_LAST - 1) :
               DistinctDevices(RmaBwLanesOfRun(mem_type))
        /\ \A bw \in LanesWith("AM_BW") : \A am \in LanesWith("AM") :
               /\ LaneLocalDev(bw) # LaneLocalDev(am)
               /\ LaneRemoteDev(bw) # LaneRemoteDev(am)

\* an RMA lane, two RMA-BW lanes of one run and an AM-BW lane beside the
\* AM lane
C25_SeveralLanesPerRole ==
    /\ Returned
    /\ LanesWith("RMA") # {}
    /\ Cardinality(RmaBwLanesOfRun(0)) >= 2
    /\ LanesWith("AM_BW") # {}
    /\ LanesWith("AM") # {}

\* the call of the evaluator the TAG pass makes
TagCall ==
    [criteria |-> TagCriteria(call), tl_bitmap |-> ALL_BITS,
     remote_md_map |-> ALL_BITS, local_dev_bitmap |-> ALL_BITS,
     remote_dev_bitmap |-> ALL_BITS]

\* the TAG pass that runs next compares the score of its selection with
\* select_ctx->am_info.score
TagPassCompares ==
    /\ pc = "tag"
    /\ "TAG" \in call.features
    /\ key.err_mode = "NONE"
    /\ Evaluate(TagCall).status = "OK"

\* C26 as claimed: a TAG lane is added only if feature TAG is set, the
\* error-handling mode is NONE and the score of the best TAG candidate is
\* >= the score of the AM lane; and whenever the TAG pass compares the two
\* scores, the AM pass has selected an AM lane in this call and written the
\* AM score.
C26_TagComparesWithSelectedAm ==
    /\ LanesWith("TAG") # {} =>
           /\ "TAG" \in call.features
           /\ key.err_mode = "NONE"
           /\ select_ctx.am_info_valid =>
                  ucp_wireup_score_cmp(Evaluate(TagCall).score,
                                       select_ctx.am_info.score) >= 0
    /\ TagPassCompares =>
           /\ select_ctx.am_info_valid
           /\ LanesWith("AM") # {}

\* in the slots of the role array every lane carrying the role appears
\* exactly once and every other entry is NONE
ArrayHoldsRole(arr, slots, role) ==
    /\ \A lane \in LanesWith(role) :
           Cardinality({i \in slots : arr[i] = lane}) = 1
    /\ \A i \in slots :
           arr[i] # UCP_NULL_LANE => arr[i] \in LanesWith(role)

\* C27 as claimed: on every OK return, for each role of AM-BW, RMA, RMA-BW
\* and AMO every lane carrying the role appears exactly once in the role's
\* array (AM-BW lanes in am_bw_lanes[1..]) and every non-NONE entry is a
\* lane carrying the role, slot 0 of am_bw_lanes being am_lane; also for a
\* lane at index MAX_LANES - 1.
C27_RoleArraysHoldRoleLanes ==
    Returned =>
        /\ ArrayHoldsRole(key.rma_lanes, 0..(UCP_MAX_LANES - 1), "RMA")
        /\ ArrayHoldsRole(key.rma_bw_lanes, 0..(UCP_MAX_LANES - 1), "RMA_BW")
        /\ ArrayHoldsRole(key.amo_lanes, 0..(UCP_MAX_LANES - 1), "AMO")
        /\ ArrayHoldsRole(key.am_bw_lanes, 1..(UCP_MAX_LANES - 1), "AM_BW")
        /\ key.am_bw_lanes[0] = key.am_lane

\* C28 as claimed: the walk of the finalizer over rma_bw_lanes that builds
\* rma_bw_md_map never reads rma_bw_lanes at an index >= MAX_LANES, also
\* when all MAX_LANES lanes carry RMA-BW and fewer than MAX_OP_MDS memory
\* domains qualify for the map.
C28_WalkStaysInsideArray ==
    pc = "done" => ~key.oob

\* C29 as claimed: on every OK return, if a lane of the final lane table is
\* on a peer-to-peer local transport then an AM lane exists, also when the
\* only peer-to-peer lanes were added by the RMA-BW pass.
C29_P2pLaneHasAmLane ==
    Returned => (P2pLanes # {} => key.am_lane # UCP_NULL_LANE)

\* the lane's local interface advertises the peer-failure handler
LaneHandlesPeerFailure(lane) ==
    "ERRHANDLE_PEER_FAILURE" \in
        call.tl_rscs[select_ctx.lane_descs[lane].rsc_index].cap_flags

\* C30 as claimed: when the endpoint parameters request error-handling mode
\* PEER, on every OK return the local interface of every lane of the output,
\* whatever its roles, advertises the peer-failure-handler capability.
C30_PeerModeLanesHandleFailure ==
    (Returned /\ ucp_wireup_ep_params_is_err_mode_peer(call.params))
        => \A lane \in TableLanes : LaneHandlesPeerFailure(lane)

====
